---- MODULE Spec2Model ----
(***************************************************************************)
(* Model of the multi-provider call service of dottie-ai:                  *)
(*   src/lib/services/calls/call-service.ts   (CallService)                *)
(*   src/unnamed/part_001                     (TwilioCallProvider)         *)
(*   src/lib/services/calls/vapi-provider.ts  (VAPICallProvider)           *)
(*   src/lib/services/calls/types.ts          (CallProvider interface)     *)
(* The relational store behind prisma is modelled as one function per      *)
(* table; every vendor call and every storage write may fail.              *)
(***************************************************************************)
EXTENDS Integers, Sequences, FiniteSets, TLC

VARIABLES calls, scheduledCalls, reminders, conferences, participants, now, lastOp,
          requests, recordings, objects, voice, analyses, cache

vars == <<calls, scheduledCalls, reminders, conferences, participants, now, lastOp,
         requests, recordings, objects, voice, analyses, cache>>

(* the state of the services beside CallService *)
OtherServices == <<recordings, objects, voice, analyses, cache>>

Null == "null"

(***************************************************************************)
(* Bounds of the model.                                                    *)
(***************************************************************************)
MaxStatuses == 2
MaxTicks == 1
MaxAutoRows == 3

(* the clock starts at 10:00 and advances an hour at a time *)
Clock == [start |-> 600, tick |-> 60]

CallIds == {"c1", "c2"}
OneCall == {"c1"}
UserIds == {"u1"}

ProviderTypes == {"twilio", "vapi"}

(* CallStatus of types.ts, the keys of the adapters' tables, and one value *)
(* that is in neither.                                                     *)
CallStatus == {"queued", "ringing", "in-progress", "completed", "failed",
               "busy", "no-answer", "canceled", "scheduled"}
TableStatuses == {"initiated", "ringing", "in-progress", "completed", "failed",
                  "busy", "no-answer"}
AllStatuses == CallStatus \cup TableStatuses \cup {"paused"}
(* the statuses the lifecycle specification draws its requests from *)
StatusOrder == <<"completed", "queued", "ringing", "in-progress", "canceled",
                 "failed", "busy", "no-answer", "scheduled", "initiated", "paused">>
LifecycleStatuses ==
  {StatusOrder[i] : i \in {j \in 1..Len(StatusOrder) : j <= MaxStatuses}}
TerminalStatuses == {"completed", "failed", "busy", "no-answer", "canceled"}

RecordingUrls == {"rec1"}
Transcriptions == {"txt1"}

(***************************************************************************)
(* Provider adapters.                                                      *)
(***************************************************************************)
OptionalMethods == {"scheduleCall", "createConference", "addParticipantToConference",
                    "removeParticipantFromConference", "muteParticipant",
                    "endConference", "getCallAnalytics"}

(* optional CallProvider methods the two shipped adapters define *)
ShippedCaps(type) == IF type = "vapi" THEN {"getCallAnalytics"} ELSE {}

createProvider(type) == [providerType |-> type, caps |-> ShippedCaps(type)]

(* new CallService(userId, providerType) *)
CallServiceOf(userId, provider) == [userId |-> userId, provider |-> provider]

ShippedServices == {CallServiceOf(u, createProvider(t)) : u \in UserIds, t \in ProviderTypes}

(* Any implementation of the CallProvider interface: each optional method is *)
(* present or absent.  Neither shipped adapter defines the scheduling or     *)
(* conference methods, so the operations that need them are exercised with   *)
(* adapters that have all optional methods or all but some.                  *)
InterfaceServices(capsets) ==
  {CallServiceOf(u, [providerType |-> "twilio", caps |-> c]) :
     u \in UserIds, c \in capsets}

Implements(svc, method) == method \in svc.provider.caps

TwilioStatusMap ==
  ("initiated" :> "queued") @@ ("ringing" :> "ringing") @@
  ("in-progress" :> "in-progress") @@ ("completed" :> "completed") @@
  ("failed" :> "failed") @@ ("busy" :> "busy") @@ ("no-answer" :> "no-answer")

VAPIStatusMap ==
  ("initiated" :> "starting") @@ ("ringing" :> "ringing") @@
  ("in-progress" :> "in_progress") @@ ("completed" :> "completed") @@
  ("failed" :> "failed") @@ ("busy" :> "busy") @@ ("no-answer" :> "no_answer")

statusMap(type) == IF type = "twilio" THEN TwilioStatusMap ELSE VAPIStatusMap

(* a translation in which "initiated" and "ringing" share a vendor value *)
mapStatus_Collide(type, status) ==
  IF status = "initiated" THEN "ringing"
  ELSE IF status \in DOMAIN statusMap(type) THEN statusMap(type)[status] ELSE status

(* statusMap[status] || status *)
mapStatus(type, status) ==
  IF status \in DOMAIN statusMap(type) THEN statusMap(type)[status] ELSE status

(* One entry of the log of vendor requests an operation made. *)
AdapterCall(method, args, sent, ok) ==
  [method |-> method, args |-> args, sent |-> sent, ok |-> ok]

(* The Twilio adapter's handleRecording / handleTranscription only log;    *)
(* every other adapter method performs a vendor request that may fail.     *)
AdapterCanFail(type, method) ==
  ~(type = "twilio" /\ method \in {"handleRecording", "handleTranscription"})

AdapterOk(type, method, vendorOk) == vendorOk \/ ~AdapterCanFail(type, method)

(***************************************************************************)
(* Storage (prisma.call).                                                  *)
(***************************************************************************)
(* prisma.call.create: the primary key is unique *)
CallCreate(cs, id, row, dbOk) ==
  IF ~dbOk THEN [calls |-> cs, result |-> "StorageError"]
  ELSE IF id \in DOMAIN cs THEN [calls |-> cs, result |-> "UniqueConstraint"]
  ELSE [calls |-> cs @@ (id :> row), result |-> "ok"]

(* an update that replaces the row: the columns not named are cleared *)
Merge_Replace(row, data) ==
  [f \in DOMAIN row |-> IF f \in DOMAIN data THEN data[f] ELSE Null]

Merge(row, data) ==
  [f \in DOMAIN row |-> IF f \in DOMAIN data THEN data[f] ELSE row[f]]

(* an update that takes effect only on a row still in its first status *)
updateCallRecord_IfQueued(cs, id, data, dbOk) ==
  IF ~dbOk THEN [calls |-> cs, result |-> "StorageError"]
  ELSE IF id \notin DOMAIN cs THEN [calls |-> cs, result |-> "RecordNotFound"]
  ELSE IF cs[id].status # "queued" THEN [calls |-> cs, result |-> "ok"]
  ELSE [calls |-> [cs EXCEPT ![id] = Merge(@, data)], result |-> "ok"]

(* private updateCallRecord(callId, data): prisma.call.update where id *)
updateCallRecord(cs, id, data, dbOk) ==
  IF ~dbOk THEN [calls |-> cs, result |-> "StorageError"]
  ELSE IF id \notin DOMAIN cs THEN [calls |-> cs, result |-> "RecordNotFound"]
  ELSE [calls |-> [cs EXCEPT ![id] = Merge(@, data)], result |-> "ok"]

(* private saveCall(callId, options) *)
saveCall(cs, svc, id, options, dbOk) ==
  CallCreate(cs, id,
    [userId |-> svc.userId,
     to |-> options.to,
     provider |-> IF options.provider = Null THEN "twilio" ELSE options.provider,
     status |-> "queued",
     recordingUrl |-> Null,
     transcription |-> Null,
     analytics |-> Null],
    dbOk)

(***************************************************************************)
(* CallService operations as functions of the store, the request and the   *)
(* outcomes of the vendor request and of the storage write.                *)
(***************************************************************************)
Outcome(cs, result, ret, adapterCalls, writes) ==
  [calls |-> cs, result |-> result, ret |-> ret,
   adapterCalls |-> adapterCalls, writes |-> writes]

(* a vendor's reply to makeCall is a call id or an error: see VendorReply *)
(* makeCall that writes the row first and asks the adapter afterwards *)
makeCallFn_SaveFirst(cs, svc, options, reply, dbOk) ==
  LET log == <<AdapterCall("makeCall", <<options>>, Null, reply.ok)>>
      id == IF reply.ok THEN reply.id ELSE "c1"
      w == saveCall(cs, svc, id, options, dbOk) IN
  IF ~reply.ok THEN Outcome(w.calls, reply.err, Null, log, IF w.result = "ok" THEN 1 ELSE 0)
  ELSE IF w.result = "ok" THEN Outcome(w.calls, "ok", reply.id, log, 1)
  ELSE Outcome(cs, w.result, Null, log, 0)

(* makeCall that asks the adapter a second time when the first request fails *)
makeCallFn_Retry(cs, svc, options, reply, dbOk) ==
  LET one == AdapterCall("makeCall", <<options>>, Null, reply.ok) IN
  IF ~reply.ok THEN Outcome(cs, reply.err, Null, <<one, one>>, 0)
  ELSE LET w == saveCall(cs, svc, reply.id, options, dbOk) IN
       IF w.result = "ok" THEN Outcome(w.calls, "ok", reply.id, <<one>>, 1)
       ELSE Outcome(cs, w.result, Null, <<one>>, 0)

makeCallFn(cs, svc, options, reply, dbOk) ==
  LET log == <<AdapterCall("makeCall", <<options>>, Null, reply.ok)>> IN
  IF ~reply.ok THEN Outcome(cs, reply.err, Null, log, 0)
  ELSE LET w == saveCall(cs, svc, reply.id, options, dbOk) IN
       IF w.result = "ok" THEN Outcome(w.calls, "ok", reply.id, log, 1)
       ELSE Outcome(cs, w.result, Null, log, 0)

(* forward to the adapter, then write one field of the Call row *)
ForwardThenUpdate(cs, svc, method, id, value, sent, data, vendorOk, dbOk) ==
  LET ok == AdapterOk(svc.provider.providerType, method, vendorOk)
      log == <<AdapterCall(method, <<id, value>>, sent, ok)>> IN
  IF ~ok THEN Outcome(cs, "ProviderError", Null, log, 0)
  ELSE LET w == updateCallRecord(cs, id, data, dbOk) IN
       Outcome(w.calls, w.result, Null, log, IF w.result = "ok" THEN 1 ELSE 0)

(* updateCallStatus that refuses a status the table does not list *)
updateCallStatusFn_Validating(cs, svc, id, status, vendorOk, dbOk) ==
  IF status \notin DOMAIN statusMap(svc.provider.providerType)
  THEN Outcome(cs, "InvalidStatus", Null, <<>>, 0)
  ELSE ForwardThenUpdate(cs, svc, "updateCallStatus", id, status,
                         mapStatus(svc.provider.providerType, status),
                         [status |-> status], vendorOk, dbOk)

updateCallStatusFn(cs, svc, id, status, vendorOk, dbOk) ==
  ForwardThenUpdate(cs, svc, "updateCallStatus", id, status,
                    mapStatus(svc.provider.providerType, status),
                    [status |-> status], vendorOk, dbOk)

(* handleRecording that also marks the call completed *)
handleRecordingFn_Completes(cs, svc, id, url, vendorOk, dbOk) ==
  ForwardThenUpdate(cs, svc, "handleRecording", id, url, Null,
                    [recordingUrl |-> url, status |-> "completed"], vendorOk, dbOk)

handleRecordingFn(cs, svc, id, url, vendorOk, dbOk) ==
  ForwardThenUpdate(cs, svc, "handleRecording", id, url, Null,
                    [recordingUrl |-> url], vendorOk, dbOk)

handleTranscriptionFn(cs, svc, id, text, vendorOk, dbOk) ==
  ForwardThenUpdate(cs, svc, "handleTranscription", id, text, Null,
                    [transcription |-> text], vendorOk, dbOk)

Analytics == {"an1"}

(* getCallAnalytics: null without the adapter method; the try block's     *)
(* errors, the adapter's and the store's, are logged and null is returned *)
getCallAnalyticsFn(cs, svc, id, reply, dbOk) ==
  LET log == <<AdapterCall("getCallAnalytics", <<id>>, Null, reply.ok)>> IN
  IF ~Implements(svc, "getCallAnalytics") THEN Outcome(cs, "ok", Null, <<>>, 0)
  ELSE IF ~reply.ok THEN Outcome(cs, "ok", Null, log, 0)
  ELSE LET w == updateCallRecord(cs, id, [analytics |-> reply.id], dbOk) IN
       IF w.result = "ok" THEN Outcome(w.calls, "ok", reply.id, log, 1)
       ELSE Outcome(cs, "ok", Null, log, 0)

(* handleIncomingCall only asks the adapter *)
handleIncomingCallFn(cs, svc, id, from, vendorOk) ==
  LET log == <<AdapterCall("handleIncomingCall", <<id, from>>, Null, vendorOk)>> IN
  IF vendorOk THEN Outcome(cs, "ok", "response", log, 0)
  ELSE Outcome(cs, "ProviderError", Null, log, 0)

Skip(cs) == Outcome(cs, "ok", Null, <<>>, 0)

(* the second of two awaited calls, made only when the first returned *)
AndThen(o1, o2) ==
  Outcome(o2.calls, o2.result, o2.ret,
          o1.adapterCalls \o o2.adapterCalls, o1.writes + o2.writes)

(* The environment of one webhook request: which of its (at most three)    *)
(* service calls fails, and whether at the vendor or at the store.         *)
WebhookEnvs == {[failAt |-> 0, kind |-> "none"]}
                 \cup [failAt : 1..3, kind : {"vendor", "store"}]
VendorOkAt(env, k) == ~(env.failAt = k /\ env.kind = "vendor")
StoreOkAt(env, k) == ~(env.failAt = k /\ env.kind = "store")

(* the route with the recording stored before the status *)
TwilioWebhookFn_RecordingFirst(cs, form, env) ==
  LET svc == CallServiceOf("system", createProvider("twilio"))
      id == form.CallSid
  IN
  IF form.CallStatus = "ringing"
  THEN handleIncomingCallFn(cs, svc, id, form.From, VendorOkAt(env, 1))
  ELSE
    LET o1 == IF form.RecordingUrl # Null
              THEN handleRecordingFn(cs, svc, id, form.RecordingUrl,
                                     VendorOkAt(env, 1), StoreOkAt(env, 1))
              ELSE Skip(cs)
        o2 == IF o1.result # "ok" THEN o1
              ELSE IF form.CallStatus # Null
              THEN AndThen(o1, updateCallStatusFn(o1.calls, svc, id, form.CallStatus,
                                                  VendorOkAt(env, 2), StoreOkAt(env, 2)))
              ELSE o1
        o3 == IF o2.result # "ok" THEN o2
              ELSE IF form.TranscriptionText # Null
              THEN AndThen(o2, handleTranscriptionFn(o2.calls, svc, id, form.TranscriptionText,
                                                     VendorOkAt(env, 3), StoreOkAt(env, 3)))
              ELSE o2
    IN o3

(* POST of the Twilio webhook route *)
TwilioWebhookFn(cs, form, env) ==
  LET svc == CallServiceOf("system", createProvider("twilio"))
      id == form.CallSid
  IN
  IF form.CallStatus = "ringing"
  THEN handleIncomingCallFn(cs, svc, id, form.From, VendorOkAt(env, 1))
  ELSE
    LET o1 == IF form.CallStatus # Null
              THEN updateCallStatusFn(cs, svc, id, form.CallStatus,
                                      VendorOkAt(env, 1), StoreOkAt(env, 1))
              ELSE Skip(cs)
        o2 == IF o1.result # "ok" THEN o1
              ELSE IF form.RecordingUrl # Null
              THEN AndThen(o1, handleRecordingFn(o1.calls, svc, id, form.RecordingUrl,
                                                 VendorOkAt(env, 2), StoreOkAt(env, 2)))
              ELSE o1
        o3 == IF o2.result # "ok" THEN o2
              ELSE IF form.TranscriptionText # Null
              THEN AndThen(o2, handleTranscriptionFn(o2.calls, svc, id, form.TranscriptionText,
                                                     VendorOkAt(env, 3), StoreOkAt(env, 3)))
              ELSE o2
    IN o3

(* POST of the VAPI webhook route; CallService has no updateVAPICallAnalytics *)
VapiWebhookFn(cs, body, env) ==
  LET svc == CallServiceOf("system", createProvider("vapi"))
      id == body.callId
  IN
  CASE body.event = "call.incoming" ->
         handleIncomingCallFn(cs, svc, id, body.from, VendorOkAt(env, 1))
    [] body.event = "call.status" /\ body.status # Null ->
         updateCallStatusFn(cs, svc, id, body.status,
                            VendorOkAt(env, 1), StoreOkAt(env, 1))
    [] body.event = "call.recording" /\ body.recordingUrl # Null ->
         handleRecordingFn(cs, svc, id, body.recordingUrl,
                           VendorOkAt(env, 1), StoreOkAt(env, 1))
    [] body.event = "call.transcription" /\ body.transcription # Null ->
         handleTranscriptionFn(cs, svc, id, body.transcription,
                               VendorOkAt(env, 1), StoreOkAt(env, 1))
    [] body.event = "call.analytics" /\ body.analytics # Null ->
         Outcome(cs, "TypeError", Null, <<>>, 0)
    [] OTHER -> Skip(cs)

(***************************************************************************)
(* Scheduling.  Time is counted in minutes.                                *)
(***************************************************************************)
Timezones == {"UTC", "America/New_York", "Asia/Kolkata"}

(* minutes east of UTC (New York on daylight time, as on 2024-03-20) *)
TzOffset(tz) ==
  CASE tz = "UTC" -> 0
    [] tz = "America/New_York" -> 0 - 240
    [] tz = "Asia/Kolkata" -> 330

(* date-fns-tz: the instant at which the wall clock of tz shows t *)
zonedTimeToUtc(t, tz) == t - TzOffset(tz)

(* date-fns *)
isBefore(a, b) == a < b
addMinutes(t, m) == t + m

SchedOutcome(sc, rem, result, ret, adapterCalls, writes) ==
  [scheduledCalls |-> sc, reminders |-> rem, result |-> result, ret |-> ret,
   adapterCalls |-> adapterCalls, writes |-> writes]

(* a reminder rule that is present counts as enabled *)
ReminderEnabled_Present(options) == options.reminder.present

(* options.reminder?.enabled *)
ReminderEnabled(options) ==
  options.reminder.present /\ options.reminder.enabled

(* private scheduleReminder(callId, options): prisma.reminder.create *)
scheduleReminder(rem, id, options, dbOk) ==
  IF ~ReminderEnabled(options) THEN [reminders |-> rem, result |-> "ok", writes |-> 0]
  ELSE IF ~dbOk THEN [reminders |-> rem, result |-> "StorageError", writes |-> 0]
  ELSE [reminders |->
          Append(rem, [scheduledCallId |-> id,
                       scheduledTime |->
                         addMinutes(options.scheduledTime, 0 - options.reminder.minutesBefore),
                       method |-> options.reminder.method,
                       status |-> "pending"]),
        result |-> "ok", writes |-> 1]

(* scheduleCall that asks the adapter before it looks at the time *)
scheduleCallFn_LateCheck(sc, rem, clock, svc, options, reply, dbOk1, dbOk2) ==
  LET log == <<AdapterCall("scheduleCall", <<options>>, Null, reply.ok)>>
      utcScheduledTime == zonedTimeToUtc(options.scheduledTime, options.timezone)
  IN
  IF ~Implements(svc, "scheduleCall")
  THEN SchedOutcome(sc, rem, "Unsupported", Null, <<>>, 0)
  ELSE IF ~reply.ok
  THEN SchedOutcome(sc, rem, reply.err, Null, log, 0)
  ELSE IF isBefore(utcScheduledTime, clock)
  THEN SchedOutcome(sc, rem, "PastTime", Null, log, 0)
  ELSE SchedOutcome(sc, rem, "StorageError", Null, log, 0)

scheduleCallFn(sc, rem, clock, svc, options, reply, dbOk1, dbOk2) ==
  LET log == <<AdapterCall("scheduleCall", <<options>>, Null, reply.ok)>>
      utcScheduledTime == zonedTimeToUtc(options.scheduledTime, options.timezone)
  IN
  IF ~Implements(svc, "scheduleCall")
  THEN SchedOutcome(sc, rem, "Unsupported", Null, <<>>, 0)
  ELSE IF isBefore(utcScheduledTime, clock)
  THEN SchedOutcome(sc, rem, "PastTime", Null, <<>>, 0)
  ELSE IF ~reply.ok
  THEN SchedOutcome(sc, rem, reply.err, Null, log, 0)
  ELSE IF ~dbOk1
  THEN SchedOutcome(sc, rem, "StorageError", Null, log, 0)
  ELSE IF reply.id \in DOMAIN sc
  THEN SchedOutcome(sc, rem, "UniqueConstraint", Null, log, 0)
  ELSE
    LET sc2 == sc @@ (reply.id :>
                 [userId |-> svc.userId,
                  scheduledTime |-> utcScheduledTime,
                  timezone |-> options.timezone,
                  reminder |-> options.reminder,
                  provider |-> IF options.provider = Null THEN "twilio"
                               ELSE options.provider,
                  status |-> "scheduled"])
        r == IF ReminderEnabled(options)
             THEN scheduleReminder(rem, reply.id, options, dbOk2)
             ELSE [reminders |-> rem, result |-> "ok", writes |-> 0]
    IN IF r.result = "ok"
       THEN SchedOutcome(sc2, r.reminders, "ok", reply.id, log, 1 + r.writes)
       ELSE SchedOutcome(sc2, rem, r.result, Null, log, 1)

(***************************************************************************)
(* Conferences.                                                            *)
(***************************************************************************)
(* a timestamp column that is not set; times are minutes, never negative *)
NoTime == 0 - 1

ConfOutcome(conf, parts, result, ret, adapterCalls, writes) ==
  [conferences |-> conf, participants |-> parts, result |-> result, ret |-> ret,
   adapterCalls |-> adapterCalls, writes |-> writes]

(* ids the store generates for the rows of a nested create *)
AutoIdOrder == <<"auto1", "auto2", "auto3", "auto4">>
AutoIdsUsed(parts) == DOMAIN parts \cap {AutoIdOrder[i] : i \in 1..Len(AutoIdOrder)}
NextAutoId(parts, k) == AutoIdOrder[Cardinality(AutoIdsUsed(parts)) + k]

(* the fan-out with all vendor requests started together *)
FanOut_AllAtOnce(id, phones, i, failAt) ==
  [k \in 1..Len(phones) |->
     AdapterCall("addParticipantToConference", <<id, phones[k]>>, Null, k # failAt)]

(* the vendor requests of the fan-out, up to and including the first that fails *)
RECURSIVE FanOut(_, _, _, _)
FanOut(id, phones, i, failAt) ==
  IF i > Len(phones) THEN <<>>
  ELSE LET call == AdapterCall("addParticipantToConference", <<id, phones[i]>>,
                               Null, i # failAt) IN
       IF i = failAt THEN <<call>>
       ELSE <<call>> \o FanOut(id, phones, i + 1, failAt)

(* createConference that invites the participants before it writes the rows *)
createConferenceFn_InviteFirst(conf, parts, svc, options, reply, dbOk, failAt) ==
  LET log == <<AdapterCall("createConference", <<options>>, Null, reply.ok)>>
      fan == FanOut(reply.id, options.participants, 1, failAt)
  IN
  IF ~Implements(svc, "createConference")
  THEN ConfOutcome(conf, parts, "Unsupported", Null, <<>>, 0)
  ELSE IF ~reply.ok
  THEN ConfOutcome(conf, parts, reply.err, Null, log, 0)
  ELSE IF failAt \in 1..Len(options.participants)
  THEN ConfOutcome(conf, parts, "ProviderError", Null, log \o fan, 0)
  ELSE IF ~dbOk
  THEN ConfOutcome(conf, parts, "StorageError", Null, log \o fan, 0)
  ELSE ConfOutcome(conf, parts, "UniqueConstraint", Null, log \o fan, 0)

createConferenceFn(conf, parts, svc, options, reply, dbOk, failAt) ==
  LET log == <<AdapterCall("createConference", <<options>>, Null, reply.ok)>>
      n == Len(options.participants)
  IN
  IF ~Implements(svc, "createConference")
  THEN ConfOutcome(conf, parts, "Unsupported", Null, <<>>, 0)
  ELSE IF ~reply.ok
  THEN ConfOutcome(conf, parts, reply.err, Null, log, 0)
  ELSE IF ~dbOk
  THEN ConfOutcome(conf, parts, "StorageError", Null, log, 0)
  ELSE IF reply.id \in DOMAIN conf
  THEN ConfOutcome(conf, parts, "UniqueConstraint", Null, log, 0)
  ELSE
    LET conf2 == conf @@ (reply.id :>
                   [userId |-> svc.userId,
                    status |-> "scheduled",
                    provider |-> IF options.provider = Null THEN "twilio"
                                 ELSE options.provider,
                    endTime |-> NoTime])
        parts2 == parts @@
                  [a \in {NextAutoId(parts, k) : k \in 1..n} |->
                     LET k == CHOOSE k \in 1..n : NextAutoId(parts, k) = a IN
                     [conferenceId |-> reply.id,
                      phoneNumber |-> options.participants[k],
                      status |-> "invited",
                      muted |-> options.muteOnEntry,
                      leftAt |-> NoTime]]
    IN
    IF n > 0 /\ ~Implements(svc, "addParticipantToConference")
    THEN ConfOutcome(conf2, parts2, "TypeError", Null, log, 1)
    ELSE LET fan == FanOut(reply.id, options.participants, 1, failAt) IN
         IF failAt \in 1..n
         THEN ConfOutcome(conf2, parts2, "ProviderError", Null, log \o fan, 1)
         ELSE ConfOutcome(conf2, parts2, "ok", reply.id, log \o fan, 1)

addParticipantToConferenceFn(conf, parts, svc, conferenceId, phone, reply, dbOk) ==
  LET log == <<AdapterCall("addParticipantToConference", <<conferenceId, phone>>,
                           Null, reply.ok)>> IN
  IF ~Implements(svc, "addParticipantToConference")
  THEN ConfOutcome(conf, parts, "Unsupported", Null, <<>>, 0)
  ELSE IF ~reply.ok
  THEN ConfOutcome(conf, parts, reply.err, Null, log, 0)
  ELSE IF ~dbOk
  THEN ConfOutcome(conf, parts, "StorageError", Null, log, 0)
  ELSE IF reply.id \in DOMAIN parts
  THEN ConfOutcome(conf, parts, "UniqueConstraint", Null, log, 0)
  ELSE IF conferenceId \notin DOMAIN conf
  THEN ConfOutcome(conf, parts, "ForeignKey", Null, log, 0)
  ELSE ConfOutcome(conf,
         parts @@ (reply.id :> [conferenceId |-> conferenceId,
                                phoneNumber |-> phone,
                                status |-> "invited",
                                muted |-> FALSE,
                                leftAt |-> NoTime]),
         "ok", Null, log, 1)

(* the adapter request and then prisma.conferenceParticipant.update where id *)
ParticipantUpdate(conf, parts, svc, method, cid, participantId, extra, data, vendorOk, dbOk) ==
  LET log == <<AdapterCall(method, <<cid, participantId>> \o extra,
                           Null, vendorOk)>> IN
  IF ~Implements(svc, method)
  THEN ConfOutcome(conf, parts, "Unsupported", Null, <<>>, 0)
  ELSE IF ~vendorOk
  THEN ConfOutcome(conf, parts, "ProviderError", Null, log, 0)
  ELSE IF ~dbOk
  THEN ConfOutcome(conf, parts, "StorageError", Null, log, 0)
  ELSE IF participantId \notin DOMAIN parts
  THEN ConfOutcome(conf, parts, "RecordNotFound", Null, log, 0)
  ELSE ConfOutcome(conf, [parts EXCEPT ![participantId] = Merge(@, data)],
                   "ok", Null, log, 1)

(* removeParticipantFromConference that deletes the participant's row *)
removeParticipantFromConferenceFn_Deletes(conf, parts, clock, svc, cid, participantId, vendorOk, dbOk) ==
  LET o == ParticipantUpdate(conf, parts, svc, "removeParticipantFromConference",
                             cid, participantId, <<>>,
                             [status |-> "disconnected", leftAt |-> clock],
                             vendorOk, dbOk) IN
  IF o.result # "ok" THEN o
  ELSE [o EXCEPT !.participants =
          [q \in DOMAIN parts \ {participantId} |-> parts[q]]]

removeParticipantFromConferenceFn(conf, parts, clock, svc, cid, participantId, vendorOk, dbOk) ==
  ParticipantUpdate(conf, parts, svc, "removeParticipantFromConference",
                    cid, participantId, <<>>,
                    [status |-> "disconnected", leftAt |-> clock], vendorOk, dbOk)

muteParticipantFn(conf, parts, svc, conferenceId, participantId, mute, vendorOk, dbOk) ==
  ParticipantUpdate(conf, parts, svc, "muteParticipant",
                    conferenceId, participantId, <<mute>>,
                    [muted |-> mute], vendorOk, dbOk)

(* endConference that also disconnects the conference's participants *)
endConferenceFn_DisconnectsAll(conf, parts, clock, svc, conferenceId, vendorOk, dbOk) ==
  LET log == <<AdapterCall("endConference", <<conferenceId>>, Null, vendorOk)>> IN
  IF ~Implements(svc, "endConference")
  THEN ConfOutcome(conf, parts, "Unsupported", Null, <<>>, 0)
  ELSE IF ~vendorOk
  THEN ConfOutcome(conf, parts, "ProviderError", Null, log, 0)
  ELSE IF ~dbOk
  THEN ConfOutcome(conf, parts, "StorageError", Null, log, 0)
  ELSE IF conferenceId \notin DOMAIN conf
  THEN ConfOutcome(conf, parts, "RecordNotFound", Null, log, 0)
  ELSE ConfOutcome([conf EXCEPT ![conferenceId] =
                      Merge(@, [status |-> "completed", endTime |-> clock])],
                   [q \in DOMAIN parts |->
                      IF parts[q].conferenceId = conferenceId
                      THEN Merge(parts[q], [status |-> "disconnected", leftAt |-> clock])
                      ELSE parts[q]],
                   "ok", Null, log, 1)

(* endConference that skips an absent adapter method and still writes *)
endConferenceFn_Unchecked(conf, parts, clock, svc, conferenceId, vendorOk, dbOk) ==
  LET has == Implements(svc, "endConference")
      log == IF has
             THEN <<AdapterCall("endConference", <<conferenceId>>, Null, vendorOk)>>
             ELSE <<>> IN
  IF has /\ ~vendorOk
  THEN ConfOutcome(conf, parts, "ProviderError", Null, log, 0)
  ELSE IF ~dbOk
  THEN ConfOutcome(conf, parts, "StorageError", Null, log, 0)
  ELSE IF conferenceId \notin DOMAIN conf
  THEN ConfOutcome(conf, parts, "RecordNotFound", Null, log, 0)
  ELSE ConfOutcome([conf EXCEPT ![conferenceId] =
                      Merge(@, [status |-> "completed", endTime |-> clock])],
                   parts, "ok", Null, log, 1)

endConferenceFn(conf, parts, clock, svc, conferenceId, vendorOk, dbOk) ==
  LET log == <<AdapterCall("endConference", <<conferenceId>>, Null, vendorOk)>> IN
  IF ~Implements(svc, "endConference")
  THEN ConfOutcome(conf, parts, "Unsupported", Null, <<>>, 0)
  ELSE IF ~vendorOk
  THEN ConfOutcome(conf, parts, "ProviderError", Null, log, 0)
  ELSE IF ~dbOk
  THEN ConfOutcome(conf, parts, "StorageError", Null, log, 0)
  ELSE IF conferenceId \notin DOMAIN conf
  THEN ConfOutcome(conf, parts, "RecordNotFound", Null, log, 0)
  ELSE ConfOutcome([conf EXCEPT ![conferenceId] =
                      Merge(@, [status |-> "completed", endTime |-> clock])],
                   parts, "ok", Null, log, 1)

(***************************************************************************)
(* Actions: one per request.                                               *)
(***************************************************************************)
Phones == {"+1"}
CallOptions == [to : Phones, provider : {Null} \cup ProviderTypes]

(* what the last request was, when it was made and how it ended *)
Record(op, svc, id, arg, out) ==
  [op |-> op, svc |-> svc, id |-> id, arg |-> arg, at |-> now, result |-> out.result,
   ret |-> out.ret, adapterCalls |-> out.adapterCalls, writes |-> out.writes]

NoService == CallServiceOf(Null, [providerType |-> Null, caps |-> {}])

NoOp == [op |-> "none", svc |-> NoService, id |-> Null, arg |-> Null, at |-> 0,
         result |-> Null, ret |-> Null, adapterCalls |-> <<>>, writes |-> 0]

OtherTables ==
  <<scheduledCalls, reminders, conferences, participants, now, requests, OtherServices>>

(* what goes wrong during one request, if anything *)
Failures == {"none", "vendor", "store"}

VendorReply(id, ok) ==
  IF ok THEN [ok |-> TRUE, id |-> id, err |-> Null]
  ELSE [ok |-> FALSE, id |-> Null, err |-> "ProviderError"]

makeCall(ids) ==
  \E svc \in ShippedServices, options \in CallOptions, id \in ids, fail \in Failures :
    LET reply == VendorReply(id, fail # "vendor")
        out == makeCallFn(calls, svc, options, reply, fail # "store") IN
    /\ calls' = out.calls
    /\ lastOp' = Record("makeCall", svc, reply.id, options, out)
    /\ UNCHANGED OtherTables

updateCallStatus(ids, statuses) ==
  \E svc \in ShippedServices, id \in ids, status \in statuses, fail \in Failures :
    LET out == updateCallStatusFn(calls, svc, id, status,
                                  fail # "vendor", fail # "store") IN
    /\ calls' = out.calls
    /\ lastOp' = Record("updateCallStatus", svc, id, status, out)
    /\ UNCHANGED OtherTables

handleRecording(ids) ==
  \E svc \in ShippedServices, id \in ids, url \in RecordingUrls, fail \in Failures :
    LET out == handleRecordingFn(calls, svc, id, url,
                                 fail # "vendor", fail # "store") IN
    /\ calls' = out.calls
    /\ lastOp' = Record("handleRecording", svc, id, url, out)
    /\ UNCHANGED OtherTables

handleTranscription(ids) ==
  \E svc \in ShippedServices, id \in ids, text \in Transcriptions, fail \in Failures :
    LET out == handleTranscriptionFn(calls, svc, id, text,
                                     fail # "vendor", fail # "store") IN
    /\ calls' = out.calls
    /\ lastOp' = Record("handleTranscription", svc, id, text, out)
    /\ UNCHANGED OtherTables

handleIncomingCall(ids) ==
  \E svc \in ShippedServices, id \in ids, from \in Phones, vendorOk \in BOOLEAN :
    LET out == handleIncomingCallFn(calls, svc, id, from, vendorOk) IN
    /\ calls' = out.calls
    /\ lastOp' = Record("handleIncomingCall", svc, id, from, out)
    /\ UNCHANGED OtherTables

getCallAnalytics(ids) ==
  \E svc \in ShippedServices, id \in ids, an \in Analytics, fail \in Failures :
    LET reply == VendorReply(an, fail # "vendor")
        out == getCallAnalyticsFn(calls, svc, id, reply, fail # "store") IN
    /\ calls' = out.calls
    /\ lastOp' = Record("getCallAnalytics", svc, id, reply, out)
    /\ UNCHANGED OtherTables

TwilioForms(ids, statuses) ==
  [CallSid : ids, From : Phones, CallStatus : {Null} \cup statuses,
   RecordingUrl : {Null} \cup RecordingUrls,
   TranscriptionText : {Null} \cup Transcriptions]

twilioWebhook(ids, statuses) ==
  \E form \in TwilioForms(ids, statuses), env \in WebhookEnvs :
    LET out == TwilioWebhookFn(calls, form, env) IN
    /\ calls' = out.calls
    /\ lastOp' = Record("twilioWebhook", CallServiceOf("system", createProvider("twilio")),
                        form.CallSid, form, out)
    /\ UNCHANGED OtherTables

VapiEvents == {"call.incoming", "call.status", "call.recording",
               "call.transcription", "call.analytics"}

(* a VAPI event carries its own field; the other fields are absent *)
VapiBody(event, id, status, recordingUrl, transcription, analytics) ==
  [event |-> event, callId |-> id, from |-> "+1", status |-> status,
   recordingUrl |-> recordingUrl, transcription |-> transcription,
   analytics |-> analytics]

VapiBodies(ids, statuses) ==
  UNION {
    {VapiBody("call.incoming", i, Null, Null, Null, Null) : i \in ids},
    {VapiBody("call.status", i, st, Null, Null, Null) :
       i \in ids, st \in {Null} \cup statuses},
    {VapiBody("call.recording", i, Null, u, Null, Null) :
       i \in ids, u \in {Null} \cup RecordingUrls},
    {VapiBody("call.transcription", i, Null, Null, t, Null) :
       i \in ids, t \in {Null} \cup Transcriptions},
    {VapiBody("call.analytics", i, Null, Null, Null, a) :
       i \in ids, a \in {Null, "an1"}} }

vapiWebhook(ids, statuses) ==
  \E body \in VapiBodies(ids, statuses), env \in WebhookEnvs :
    LET out == VapiWebhookFn(calls, body, env) IN
    /\ calls' = out.calls
    /\ lastOp' = Record("vapiWebhook", CallServiceOf("system", createProvider("vapi")),
                        body.callId, body, out)
    /\ UNCHANGED OtherTables

(* the optional reminder rule of ScheduledCallOptions *)
NoReminder == [present |-> FALSE, enabled |-> FALSE, minutesBefore |-> 0, method |-> Null]
ReminderRules ==
  {NoReminder} \cup
  [present : {TRUE}, enabled : BOOLEAN, minutesBefore : {15}, method : {"sms"}]

ScheduledCallOptions(times, zones) ==
  [to : Phones, provider : {Null}, scheduledTime : times, timezone : zones,
   reminder : ReminderRules]

CallTables == <<calls, conferences, participants>>

(* what goes wrong during one request, if anything: the vendor request or *)
(* one of the storage writes                                              *)
ScheduleFailures == {"none", "vendor", "scheduledCall.create", "reminder.create"}

scheduleCall(services, ids, times, zones) ==
  \E svc \in services, options \in ScheduledCallOptions(times, zones),
     id \in ids, fail \in ScheduleFailures :
    LET reply == VendorReply(id, fail # "vendor")
        out == scheduleCallFn(scheduledCalls, reminders, now, svc, options, reply,
                              fail # "scheduledCall.create",
                              fail # "reminder.create") IN
    /\ scheduledCalls' = out.scheduledCalls
    /\ reminders' = out.reminders
    /\ lastOp' = Record("scheduleCall", svc, reply.id, options, out)
    /\ UNCHANGED <<CallTables, now, requests, OtherServices>>

(* time passes *)
Tick ==
  /\ now < Clock.start + MaxTicks * Clock.tick
  /\ now' = now + Clock.tick
  /\ UNCHANGED <<calls, scheduledCalls, reminders, conferences, participants, lastOp,
               requests, OtherServices>>

ConferenceOptions(lists) ==
  [participants : lists, provider : {Null}, muteOnEntry : BOOLEAN]

ScheduleTables == <<scheduledCalls, reminders>>

createConference(services, ids, lists) ==
  \E svc \in services, options \in ConferenceOptions(lists), id \in ids,
     fail \in Failures \cup {"fanout"} :
    \E failAt \in IF fail = "fanout" THEN 1..Len(options.participants) ELSE {0} :
      LET reply == VendorReply(id, fail # "vendor")
          out == createConferenceFn(conferences, participants, svc, options, reply,
                                    fail # "store", failAt) IN
      /\ Cardinality(AutoIdsUsed(participants)) + Len(options.participants)
           <= MaxAutoRows
      /\ conferences' = out.conferences
      /\ participants' = out.participants
      /\ lastOp' = Record("createConference", svc, reply.id, options, out)
      /\ UNCHANGED <<calls, ScheduleTables, now, requests, OtherServices>>

addParticipantToConference(services, ids, phones, pids) ==
  \E svc \in services, conferenceId \in ids, phone \in phones,
     pid \in pids, fail \in Failures :
    LET reply == VendorReply(pid, fail # "vendor")
        out == addParticipantToConferenceFn(conferences, participants, svc,
                                            conferenceId, phone, reply, fail # "store") IN
    /\ conferences' = out.conferences
    /\ participants' = out.participants
    /\ lastOp' = Record("addParticipantToConference", svc, conferenceId,
                        <<phone, reply.id>>, out)
    /\ UNCHANGED <<calls, ScheduleTables, now, requests, OtherServices>>

removeParticipantFromConference(services, ids, pids) ==
  \E svc \in services, conferenceId \in ids, pid \in pids, fail \in Failures :
    LET out == removeParticipantFromConferenceFn(conferences, participants, now, svc,
                 conferenceId, pid, fail # "vendor", fail # "store") IN
    /\ conferences' = out.conferences
    /\ participants' = out.participants
    /\ lastOp' = Record("removeParticipantFromConference", svc, conferenceId, pid, out)
    /\ UNCHANGED <<calls, ScheduleTables, now, requests, OtherServices>>

muteParticipant(services, ids, pids) ==
  \E svc \in services, conferenceId \in ids, pid \in pids, mute \in BOOLEAN,
     fail \in Failures :
    LET out == muteParticipantFn(conferences, participants, svc, conferenceId, pid,
                                 mute, fail # "vendor", fail # "store") IN
    /\ conferences' = out.conferences
    /\ participants' = out.participants
    /\ lastOp' = Record("muteParticipant", svc, conferenceId, <<pid, mute>>, out)
    /\ UNCHANGED <<calls, ScheduleTables, now, requests, OtherServices>>

endConference(services, ids) ==
  \E svc \in services, conferenceId \in ids, fail \in Failures :
    LET out == endConferenceFn(conferences, participants, now, svc, conferenceId,
                               fail # "vendor", fail # "store") IN
    /\ conferences' = out.conferences
    /\ participants' = out.participants
    /\ lastOp' = Record("endConference", svc, conferenceId, Null, out)
    /\ UNCHANGED <<calls, ScheduleTables, now, requests, OtherServices>>

(***************************************************************************)
(* updateCallStatus requests in flight: a request handler runs up to its   *)
(* next await, so the vendor's answers and the store's writes of different *)
(* requests come in any order.                                             *)
(***************************************************************************)
Slots == {"r1", "r2"}

Idle == [pc |-> "idle", svc |-> NoService, method |-> Null,
         id |-> Null, status |-> Null, data |-> <<>>, result |-> Null]

Untouched ==
  <<scheduledCalls, reminders, conferences, participants, now, lastOp, OtherServices>>

(* a request arrives: updateCallStatus is entered and asks the adapter *)
BeginUpdateCallStatus(ids, statuses) ==
  \E r \in Slots, svc \in ShippedServices, id \in ids, status \in statuses :
    /\ requests[r].pc = "idle"
    /\ requests' = [requests EXCEPT ![r] =
         [pc |-> "adapter", svc |-> svc, method |-> "updateCallStatus", id |-> id,
          status |-> status, data |-> [status |-> status], result |-> Null]]
    /\ UNCHANGED <<calls, Untouched>>

(* a request arrives: handleRecording is entered and asks the adapter *)
BeginHandleRecording(ids) ==
  \E r \in Slots, svc \in ShippedServices, id \in ids, recordingUrl \in RecordingUrls :
    /\ requests[r].pc = "idle"
    /\ requests' = [requests EXCEPT ![r] =
         [pc |-> "adapter", svc |-> svc, method |-> "handleRecording", id |-> id,
          status |-> Null, data |-> [recordingUrl |-> recordingUrl], result |-> Null]]
    /\ UNCHANGED <<calls, Untouched>>

(* a request arrives: handleTranscription is entered and asks the adapter *)
BeginHandleTranscription(ids) ==
  \E r \in Slots, svc \in ShippedServices, id \in ids, transcription \in Transcriptions :
    /\ requests[r].pc = "idle"
    /\ requests' = [requests EXCEPT ![r] =
         [pc |-> "adapter", svc |-> svc, method |-> "handleTranscription", id |-> id,
          status |-> Null, data |-> [transcription |-> transcription], result |-> Null]]
    /\ UNCHANGED <<calls, Untouched>>

(* await this.provider.<method>(callId, value) returns or throws *)
AdapterAnswers(r) ==
  \E vendorOk \in BOOLEAN :
    /\ requests[r].pc = "adapter"
    /\ requests' = [requests EXCEPT ![r] =
         IF AdapterOk(@.svc.provider.providerType, @.method, vendorOk)
         THEN [@ EXCEPT !.pc = "store"]
         ELSE [@ EXCEPT !.pc = "done", !.result = "ProviderError"]]
    /\ UNCHANGED <<calls, Untouched>>

(* await this.updateCallRecord(callId, { <column> }) returns or throws *)
StoreAnswers(r) ==
  \E dbOk \in BOOLEAN :
    LET w == updateCallRecord(calls, requests[r].id, requests[r].data, dbOk) IN
    /\ requests[r].pc = "store"
    /\ calls' = w.calls
    /\ requests' = [requests EXCEPT ![r] = [@ EXCEPT !.pc = "done", !.result = w.result]]
    /\ UNCHANGED Untouched

(* the response has gone out *)
Respond(r) ==
  /\ requests[r].pc = "done"
  /\ requests' = [requests EXCEPT ![r] = Idle]
  /\ UNCHANGED <<calls, Untouched>>

(***************************************************************************)
(* RecordingService: callRecording rows and the objects of the bucket.     *)
(* A lookup (findUnique) answers; the requests that change something, to   *)
(* the recording's URL, the bucket or the table, may fail.                 *)
(***************************************************************************)
RecOutcome(recs, objs, result, ret, s3Calls, writes) ==
  [recordings |-> recs, objects |-> objs, result |-> result, ret |-> ret,
   s3Calls |-> s3Calls, writes |-> writes]

S3Call(command, key, ok) ==
  [method |-> command, args |-> <<key>>, sent |-> Null, ok |-> ok]

(* recordings/<callId>/<sha256(callId + Date.now())>.wav *)
generateRecordingKey(callId, clock) == <<"recordings", callId, clock>>

SaveFailures == {"none", "fetch", "PutObject", "callRecording.create"}
DeleteFailures == {"none", "DeleteObject", "callRecording.delete"}

(* saveRecording that writes the row before it uploads *)
saveRecordingFn_RowFirst(recs, objs, clock, callId, fail) ==
  LET key == generateRecordingKey(callId, clock)
      put == <<S3Call("PutObject", key, fail # "PutObject")>>
      row == [s3Key |-> key, qualityScore |-> Null]
  IN
  IF fail = "fetch" THEN RecOutcome(recs, objs, "FetchError", Null, <<>>, 0)
  ELSE IF fail = "callRecording.create"
  THEN RecOutcome(recs, objs, "StorageError", Null, <<>>, 0)
  ELSE IF callId \in DOMAIN recs
  THEN RecOutcome(recs, objs, "UniqueConstraint", Null, <<>>, 0)
  ELSE IF fail = "PutObject"
  THEN RecOutcome(recs @@ (callId :> row), objs, "S3Error", Null, put, 1)
  ELSE RecOutcome(recs @@ (callId :> row), objs \cup {key}, "ok", Null, put, 1)

saveRecordingFn(recs, objs, clock, callId, fail) ==
  LET key == generateRecordingKey(callId, clock)
      put == <<S3Call("PutObject", key, fail # "PutObject")>>
  IN
  IF fail = "fetch" THEN RecOutcome(recs, objs, "FetchError", Null, <<>>, 0)
  ELSE IF fail = "PutObject" THEN RecOutcome(recs, objs, "S3Error", Null, put, 0)
  ELSE IF fail = "callRecording.create"
  THEN RecOutcome(recs, objs \cup {key}, "StorageError", Null, put, 0)
  ELSE IF callId \in DOMAIN recs
  THEN RecOutcome(recs, objs \cup {key}, "UniqueConstraint", Null, put, 0)
  ELSE RecOutcome(recs @@ (callId :> [s3Key |-> key, qualityScore |-> Null]),
                  objs \cup {key}, "ok", Null, put, 1)

(* getRecordingUrl that signs a URL for the key a recording would have *)
getRecordingUrlFn_NoLookup(recs, objs, callId) ==
  LET key == IF callId \in DOMAIN recs THEN recs[callId].s3Key
             ELSE generateRecordingKey(callId, 0) IN
  RecOutcome(recs, objs, "ok", <<"signed", key>>, <<S3Call("GetObject", key, TRUE)>>, 0)

(* the presigned URL is computed from the key; no request goes to the bucket *)
getRecordingUrlFn(recs, objs, callId) ==
  IF callId \notin DOMAIN recs
  THEN RecOutcome(recs, objs, "Recording not found", Null, <<>>, 0)
  ELSE RecOutcome(recs, objs, "ok", <<"signed", recs[callId].s3Key>>, <<>>, 0)

deleteRecordingFn(recs, objs, callId, fail) ==
  IF callId \notin DOMAIN recs
  THEN RecOutcome(recs, objs, "Recording not found", Null, <<>>, 0)
  ELSE
    LET key == recs[callId].s3Key
        del == <<S3Call("DeleteObject", key, fail # "DeleteObject")>>
    IN
    IF fail = "DeleteObject" THEN RecOutcome(recs, objs, "S3Error", Null, del, 0)
    ELSE IF fail = "callRecording.delete"
    THEN RecOutcome(recs, objs \ {key}, "StorageError", Null, del, 0)
    ELSE RecOutcome([c \in DOMAIN recs \ {callId} |-> recs[c]], objs \ {key},
                    "ok", Null, del, 1)

(* calculateQualityScore is a placeholder that returns 0.85 *)
calculateQualityScore(recording) == "0.85"

analyzeRecordingFn(recs, objs, callId, dbOk) ==
  IF callId \notin DOMAIN recs
  THEN RecOutcome(recs, objs, "Recording not found", Null, <<>>, 0)
  ELSE LET quality == calculateQualityScore(recs[callId]) IN
       IF ~dbOk THEN RecOutcome(recs, objs, "StorageError", Null, <<>>, 0)
       ELSE RecOutcome([recs EXCEPT ![callId].qualityScore = quality], objs,
                       "ok", quality, <<>>, 1)

RecRecord(op, id, arg, out) ==
  [op |-> op, svc |-> NoService, id |-> id, arg |-> arg, at |-> now,
   result |-> out.result, ret |-> out.ret, adapterCalls |-> out.s3Calls,
   writes |-> out.writes]

NotRecordings ==
  <<calls, scheduledCalls, reminders, conferences, participants, now, requests, voice,
    analyses, cache>>

saveRecording(ids) ==
  \E callId \in ids, fail \in SaveFailures :
    LET out == saveRecordingFn(recordings, objects, now, callId, fail) IN
    /\ recordings' = out.recordings
    /\ objects' = out.objects
    /\ lastOp' = RecRecord("saveRecording", callId, fail, out)
    /\ UNCHANGED NotRecordings

getRecordingUrl(ids) ==
  \E callId \in ids :
    LET out == getRecordingUrlFn(recordings, objects, callId) IN
    /\ recordings' = out.recordings
    /\ objects' = out.objects
    /\ lastOp' = RecRecord("getRecordingUrl", callId, Null, out)
    /\ UNCHANGED NotRecordings

deleteRecording(ids) ==
  \E callId \in ids, fail \in DeleteFailures :
    LET out == deleteRecordingFn(recordings, objects, callId, fail) IN
    /\ recordings' = out.recordings
    /\ objects' = out.objects
    /\ lastOp' = RecRecord("deleteRecording", callId, fail, out)
    /\ UNCHANGED NotRecordings

analyzeRecording(ids) ==
  \E callId \in ids, dbOk \in BOOLEAN :
    LET out == analyzeRecordingFn(recordings, objects, callId, dbOk) IN
    /\ recordings' = out.recordings
    /\ objects' = out.objects
    /\ lastOp' = RecRecord("analyzeRecording", callId, Null, out)
    /\ UNCHANGED NotRecordings

(* ------------------------------------------------------------------ *)
(* VoiceAnalysisService                                                *)
(* ------------------------------------------------------------------ *)

\* an object without members: {} in the source, and [] for a list
NoMembers == [x \in {} |-> 0]

Has(obj, member) == member \in DOMAIN obj

\* the three outcomes of evaluating an expression: it throws, it is
\* undefined, or it has a value
Thrown(reason) == [threw |-> TRUE, reason |-> reason, defined |-> FALSE, value |-> NoMembers]

UndefinedValue == [threw |-> FALSE, reason |-> Null, defined |-> FALSE, value |-> NoMembers]

Value(v) == [threw |-> FALSE, reason |-> Null, defined |-> TRUE, value |-> v]

AudioUrls == {"s3://bucket/audio.mp3", "https://example.com/audio.mp3"}

\* getAudioBuffer: s3.getObject for an s3:// url, fetch for any other
getAudioBuffer(audioUrl, downloadOk) ==
  LET via == IF audioUrl = "s3://bucket/audio.mp3" THEN "s3.getObject" ELSE "fetch" IN
  IF downloadOk THEN [threw |-> FALSE, reason |-> Null, via |-> via]
  ELSE [threw |-> TRUE, reason |-> "download failed", via |-> via]

\* response.results?.channels[0]
FirstChannel(response) ==
  IF ~Has(response, "results") THEN UndefinedValue
  ELSE IF ~Has(response.results, "channels") THEN Thrown("TypeError")
  ELSE IF Len(response.results.channels) = 0 THEN UndefinedValue
  ELSE Value(response.results.channels[1])

\* response.results?.channels[0]?.alternatives[0]
FirstAlternative(response) ==
  LET channel == FirstChannel(response) IN
  IF channel.threw \/ ~channel.defined THEN channel
  ELSE IF ~Has(channel.value, "alternatives") THEN Thrown("TypeError")
  ELSE IF Len(channel.value.alternatives) = 0 THEN UndefinedValue
  ELSE Value(channel.value.alternatives[1])

\* object.member || 0
OrZero(obj, member) == IF Has(obj, member) THEN obj[member] ELSE 0

analyzeAcousticFeatures(reply) ==
  IF reply.rejects THEN Thrown("API Error")
  ELSE
    LET alt == FirstAlternative(reply.body) IN
    IF alt.threw THEN alt
    ELSE
      LET features == IF alt.defined /\ Has(alt.value, "audio_features")
                      THEN alt.value.audio_features ELSE NoMembers
      IN Value([pitch |-> OrZero(features, "pitch_mean"),
                energy |-> OrZero(features, "energy_mean"),
                clarity |-> OrZero(features, "clarity_mean"),
                tempo |-> OrZero(features, "tempo_mean"),
                variability |-> OrZero(features, "pitch_variability")])

RemoveAt(seq, i) == SubSeq(seq, 1, i - 1) \o SubSeq(seq, i + 1, Len(seq))

RECURSIVE Entries(_, _, _)
\* Object.entries(counts): one entry per key, in the order the keys were
\* first inserted, with the number of occurrences of the key
Entries(all, rest, seen) ==
  IF Len(rest) = 0 THEN <<>>
  ELSE IF Head(rest) \in seen THEN Entries(all, Tail(rest), seen)
  ELSE <<[word |-> Head(rest),
          frequency |-> Cardinality({i \in DOMAIN all : all[i] = Head(rest)})]>>
       \o Entries(all, Tail(rest), seen \cup {Head(rest)})

RECURSIVE SortByFrequency(_)
\* entries.sort((a, b) => b.frequency - a.frequency): descending, stable
SortByFrequency(entries) ==
  IF Len(entries) = 0 THEN <<>>
  ELSE
    LET best == CHOOSE i \in DOMAIN entries : \A j \in DOMAIN entries :
                  \/ entries[j].frequency < entries[i].frequency
                  \/ entries[j].frequency = entries[i].frequency /\ i <= j
    IN <<entries[best]>> \o SortByFrequency(RemoveAt(entries, best))

\* Object.entries(counts).sort(...)[0][0]: element 0 of an empty list is
\* undefined, and reading its member 0 throws
getMostFrequentEmotion(emotions) ==
  LET sorted == SortByFrequency(Entries(emotions, emotions, {})) IN
  IF Len(sorted) = 0 THEN Thrown("TypeError") ELSE Value(sorted[1].word)

\* emotions.filter((emotion, index, array) => emotion !== array[index - 1])
simplifyEmotionFlow(emotions) ==
  SelectSeq([i \in DOMAIN emotions |-> [at |-> i, emotion |-> emotions[i]]],
            LAMBDA e : e.at = 1 \/ emotions[e.at] # emotions[e.at - 1])

EmotionFlow(emotions) ==
  LET kept == simplifyEmotionFlow(emotions) IN [i \in DOMAIN kept |-> kept[i].emotion]

analyzeEmotions(reply) ==
  IF reply.rejects THEN Thrown("API Error")
  ELSE
    LET emotionSegments == IF Has(reply.body, "sentiment_analysis_results")
                           THEN reply.body.sentiment_analysis_results ELSE <<>>
        emotions == [i \in DOMAIN emotionSegments |-> emotionSegments[i].sentiment]
        current == getMostFrequentEmotion(emotions)
    IN IF current.threw THEN current
       ELSE Value([currentEmotion |-> current.value,
                   emotionFlow |-> EmotionFlow(emotions)])

stopWords == {"the", "a", "an", "and", "or", "but", "in", "on", "at", "to", "for"}

\* String.toLowerCase on the words of the sample replies
toLowerCase(text) == IF text = "Hello" THEN "hello" ELSE IF text = "The" THEN "the" ELSE text

TopKeywords == 20

extractKeywords(words) ==
  LET texts == [i \in DOMAIN words |-> toLowerCase(words[i].word)]
      kept == SelectSeq(texts, LAMBDA text : text \notin stopWords /\ Len(text) > 2)
      sorted == SortByFrequency(Entries(kept, kept, {}))
  IN SubSeq(sorted, 1, IF Len(sorted) < TopKeywords THEN Len(sorted) ELSE TopKeywords)

analyzeTranscription(reply) ==
  IF reply.rejects THEN Thrown("API Error")
  ELSE
    LET alt == FirstAlternative(reply.body)
        channel == FirstChannel(reply.body)
    IN
    IF alt.threw THEN alt
    ELSE
      LET words == IF alt.defined /\ Has(alt.value, "words") THEN alt.value.words ELSE <<>>
          alternative == IF alt.defined THEN alt.value ELSE NoMembers
          chan == IF channel.defined THEN channel.value ELSE NoMembers
      IN Value([keywords |-> extractKeywords(words),
                confidence |-> OrZero(alternative, "confidence"),
                audioQuality |-> [snr |-> OrZero(chan, "snr"),
                                  clarity |-> OrZero(chan, "clarity"),
                                  background_noise |-> OrZero(chan, "background_noise")]])

SubAnalyses == {"acoustic", "emotion", "transcription"}

\* a promise that has not settled
Pending == [threw |-> FALSE, reason |-> "pending", defined |-> FALSE, value |-> NoMembers]

IsPending(promise) == promise.reason = "pending"

\* Promise.all: rejected as soon as one promise is rejected, fulfilled
\* once every promise is fulfilled
PromiseAll(settled) ==
  IF \E a \in SubAnalyses : settled[a].threw THEN "rejected"
  ELSE IF \E a \in SubAnalyses : IsPending(settled[a]) THEN "pending"
  ELSE "fulfilled"

Combine(all) ==
  [pitch |-> all["acoustic"].value.pitch,
   energy |-> all["acoustic"].value.energy,
   clarity |-> all["acoustic"].value.clarity,
   tempo |-> all["acoustic"].value.tempo,
   variability |-> all["acoustic"].value.variability,
   emotion |-> all["emotion"].value.currentEmotion,
   emotionFlow |-> all["emotion"].value.emotionFlow,
   keywords |-> all["transcription"].value.keywords,
   confidence |-> all["transcription"].value.confidence,
   audioQuality |-> all["transcription"].value.audioQuality]

Caught_Rethrow(error) == error

\* catch (error) { throw new Error('Failed to analyze voice recording') }
Caught(error) == "Failed to analyze voice recording"

Rejects == [rejects |-> TRUE, body |-> NoMembers]

Answers(body) == [rejects |-> FALSE, body |-> body]

AudioFeatures ==
  [pitch_mean |-> 220, energy_mean |-> 8, clarity_mean |-> 9, tempo_mean |-> 120,
   pitch_variability |-> 3]

Alternative ==
  [audio_features |-> AudioFeatures, confidence |-> 95,
   words |-> <<[word |-> "Hello"], [word |-> "The"], [word |-> "world"],
               [word |-> "world"], [word |-> "hi"]>>]

Channel(alternatives) == [alternatives |-> alternatives, snr |-> 20, clarity |-> 85, background_noise |-> 1]

\* the replies of deepgram.transcription.preRecorded
DeepgramReplies ==
  {Rejects,
   Answers(NoMembers),
   Answers([results |-> NoMembers]),
   Answers([results |-> [channels |-> <<>>]]),
   Answers([results |-> [channels |-> <<Channel(<<>>)>>]]),
   Answers([results |-> [channels |-> <<Channel(<<NoMembers>>)>>]]),
   Answers([results |-> [channels |-> <<Channel(<<Alternative>>)>>]])}

Sentiments(list) == [i \in DOMAIN list |-> [sentiment |-> list[i]]]

\* the replies of assemblyai.transcribe
AssemblyReplies ==
  {Rejects,
   Answers(NoMembers),
   Answers([sentiment_analysis_results |-> <<>>]),
   Answers([sentiment_analysis_results |-> Sentiments(<<"positive", "neutral", "positive">>)]),
   Answers([sentiment_analysis_results |-> Sentiments(<<"negative", "negative", "positive">>)])}

RepliesTo(a) == IF a = "emotion" THEN AssemblyReplies ELSE DeepgramReplies

SubAnalysis(a, reply) ==
  IF a = "acoustic" THEN analyzeAcousticFeatures(reply)
  ELSE IF a = "emotion" THEN analyzeEmotions(reply)
  ELSE analyzeTranscription(reply)

NoVoice ==
  [pc |-> "idle", audioUrl |-> Null, downloaded |-> FALSE,
   replies |-> [a \in SubAnalyses |-> Rejects],
   settled |-> [a \in SubAnalyses |-> Pending],
   result |-> "pending", ret |-> UndefinedValue]

VoiceRecord(v) ==
  [op |-> "analyzeVoice", svc |-> NoService, id |-> v.audioUrl, arg |-> v.replies,
   at |-> now, result |-> v.result, ret |-> v.ret,
   adapterCalls |-> <<getAudioBuffer(v.audioUrl, v.downloaded).via>>, writes |-> 0]

NotVoice ==
  <<calls, scheduledCalls, reminders, conferences, participants, now, requests,
    recordings, objects, analyses, cache>>

\* analyzeVoice up to the start of the three parallel sub-analyses
analyzeVoice(urls) ==
  \E audioUrl \in urls, downloadOk \in BOOLEAN :
    LET audioBuffer == getAudioBuffer(audioUrl, downloadOk)
        begun == [NoVoice EXCEPT !.audioUrl = audioUrl, !.downloaded = downloadOk]
        next == IF audioBuffer.threw
                THEN [begun EXCEPT !.pc = "done", !.result = Caught(audioBuffer.reason)]
                ELSE [begun EXCEPT !.pc = "parallel"]
    IN
    /\ voice.pc \in {"idle", "done"}
    /\ voice' = next
    /\ lastOp' = IF next.pc = "done" THEN VoiceRecord(next) ELSE lastOp
    /\ UNCHANGED NotVoice

\* one of the three sub-analyses settles; analyzeVoice settles with it
\* when Promise.all does
SubAnalysisSettles(a) ==
  \E reply \in RepliesTo(a) :
    LET settled == [voice.settled EXCEPT ![a] = SubAnalysis(a, reply)]
        all == PromiseAll(settled)
        heard == [voice EXCEPT !.settled = settled, !.replies[a] = reply]
        next == IF voice.pc = "done" \/ all = "pending" THEN heard
                ELSE IF all = "rejected"
                THEN [heard EXCEPT !.pc = "done", !.result = Caught(settled[a].reason)]
                ELSE [heard EXCEPT !.pc = "done", !.result = "ok",
                                   !.ret = Value(Combine(settled))]
    IN
    /\ voice.pc \in {"parallel", "done"} /\ voice.downloaded
    /\ IsPending(voice.settled[a])
    /\ voice' = next
    /\ lastOp' = IF voice.pc = "parallel" /\ next.pc = "done" THEN VoiceRecord(next) ELSE lastOp
    /\ UNCHANGED NotVoice

(* ------------------------------------------------------------------ *)
(* AIInsightsService                                                   *)
(* ------------------------------------------------------------------ *)

\* A text is a sequence of lines and a line a sequence of words; leading
\* white space of a line is the word Indent, an empty line has no word.
Indent == "  "

RECURSIVE SplitOnBlankLine(_)
\* text.split('\n\n'): two newlines in a row are the two ends of an empty
\* line that is neither the first nor the last line of the text; the text
\* is cut at the first one and the rest, from the next line on, is split
\* the same way
SplitOnBlankLine(text) ==
  LET cuts == {i \in 2..(Len(text) - 1) : Len(text[i]) = 0} IN
  IF cuts = {} THEN <<text>>
  ELSE LET i == CHOOSE c \in cuts : \A d \in cuts : c <= d
       IN <<SubSeq(text, 1, i - 1)>> \o SplitOnBlankLine(SubSeq(text, i + 1, Len(text)))

\* line.includes(word)
LineIncludes(line, word) == \E j \in DOMAIN line : line[j] = word

\* section.includes(header)
Includes(section, header) == \E i \in DOMAIN section : LineIncludes(section[i], header)

\* section.replace(header, ''): the first occurrence only
Replace(section, header) ==
  IF ~Includes(section, header) THEN section
  ELSE
    LET i == CHOOSE k \in DOMAIN section :
               LineIncludes(section[k], header) /\ \A m \in 1..(k - 1) : ~LineIncludes(section[m], header)
        j == CHOOSE k \in DOMAIN section[i] :
               section[i][k] = header /\ \A m \in 1..(k - 1) : section[i][m] # header
    IN [section EXCEPT ![i] = RemoveAt(section[i], j)]

\* line.trim()
TrimLine(line) == SelectSeq(line, LAMBDA word : word # Indent)

\* text.trim(): white space and empty lines at both ends are dropped; ''
\* is the text without lines
Trim(text) ==
  LET inked == {i \in DOMAIN text : Len(TrimLine(text[i])) > 0} IN
  IF inked = {} THEN <<>>
  ELSE LET first == CHOOSE i \in inked : \A k \in inked : i <= k
           last == CHOOSE i \in inked : \A k \in inked : k <= i
       IN [i \in 1..(last - first + 1) |->
             IF i = 1 THEN TrimLine(text[first]) ELSE text[first + i - 1]]

\* sections.find(s => s.includes(header))
Find(sections, header) ==
  LET found == {i \in DOMAIN sections : Includes(sections[i], header)} IN
  IF found = {} THEN UndefinedValue
  ELSE Value(sections[CHOOSE i \in found : \A k \in found : i <= k])

\* section.replace(header, '').split('\n').map(t => t.trim()).filter(Boolean)
ListUnder(sections, header) ==
  LET section == Find(sections, header) IN
  IF ~section.defined THEN <<>>
  ELSE LET lines == Replace(section.value, header)
       IN SelectSeq([i \in DOMAIN lines |-> TrimLine(lines[i])], LAMBDA line : Len(line) > 0)

\* the keywords that the lower-case form of a word includes
KeywordsIn(word) ==
  IF word \in {"Improvement", "improve"} THEN {"improve"}
  ELSE IF word \in {"Success", "Successful"} THEN {"success"}
  ELSE IF word \in {"Trend", "trending"} THEN {"trend"}
  ELSE {}

\* title.toLowerCase().includes(keyword)
Mentions(title, keyword) == \E j \in DOMAIN title : keyword \in KeywordsIn(title[j])

determineInsightType(title) ==
  IF Mentions(title, "improve") THEN "improvement"
  ELSE IF Mentions(title, "success") THEN "success"
  ELSE IF Mentions(title, "trend") THEN "trend"
  ELSE "anomaly"

calculateConfidence(text) == "0.85"

extractMetrics(text) == <<>>

extractRecommendations(sections) == ListUnder(sections, "Recommendations:")

InsightOf_WholeSection(section) ==
  LET title == Head(section)
      rest == Tail(section)
  IN [type |-> IF \E i \in DOMAIN section : Mentions(section[i], "improve") THEN "improvement"
               ELSE IF \E i \in DOMAIN section : Mentions(section[i], "success") THEN "success"
               ELSE IF \E i \in DOMAIN section : Mentions(section[i], "trend") THEN "trend"
               ELSE "anomaly",
      title |-> TrimLine(Replace(<<title>>, "Insight:")[1]),
      description |-> Trim(rest),
      confidence |-> calculateConfidence(section),
      metrics |-> extractMetrics(section),
      recommendations |-> extractRecommendations(<<section>>)]

\* the entry that extractInsights makes of one section
InsightOf(section) ==
  LET title == Head(section)
      rest == Tail(section)
  IN [type |-> determineInsightType(title),
      title |-> TrimLine(Replace(<<title>>, "Insight:")[1]),
      description |-> Trim(rest),
      confidence |-> calculateConfidence(section),
      metrics |-> extractMetrics(section),
      recommendations |-> extractRecommendations(<<section>>)]

extractInsights(sections) ==
  LET kept == SelectSeq(sections, LAMBDA section : Includes(section, "Insight:"))
  IN [i \in DOMAIN kept |-> InsightOf(kept[i])]

extractSummary(sections) ==
  LET section == Find(sections, "Summary:") IN
  IF ~section.defined THEN <<>> ELSE Trim(Replace(section.value, "Summary:"))

extractKeyTakeaways(sections) == ListUnder(sections, "Key Takeaways:")

extractActionItems(sections) == ListUnder(sections, "Action Items:")

parseAIResponse(response) ==
  LET sections == SplitOnBlankLine(response) IN
  [insights |-> extractInsights(sections),
   summary |-> extractSummary(sections),
   keyTakeaways |-> extractKeyTakeaways(sections),
   actionItems |-> extractActionItems(sections)]

\* response.choices[0].message.content || ''
NoContent == << <<>> >>

generateCallInsightsFn(completion) ==
  IF completion.rejects THEN [result |-> "API Error", ret |-> Null]
  ELSE [result |-> "ok", ret |-> parseAIResponse(completion.content)]

\* sections of the replies of the language model
SummarySection == << <<"Summary:", "Test", "call", "summary">> >>

ImprovementNeeded ==
  << <<"Insight:", "Improvement", "Needed">>, <<"response", "time", "was", "slow">>,
     <<"Recommendations:">>, <<"-", "use", "templates">> >>

SuccessPattern ==
  << <<"Insight:", "Success", "Pattern">>, <<"keep", "it;", "improve", "later">> >>

TrendSection == << <<"Insight:", "Trend", "of", "Success">> >>

UnusualSection == << <<"Insight:", "Unusual", "call">>, <<"a", "Trend", "?">> >>

LateHeader == << <<"Improvement", "Trend">>, <<"Insight:", "shorter", "calls">> >>

InsightSections == {ImprovementNeeded, SuccessPattern, TrendSection, UnusualSection, LateHeader}

KeyTakeawaysSection ==
  << <<"Key Takeaways:">>, <<"-", "response", "time">>, <<"-", "resolution">> >>

ActionItemsSection == << <<"Action Items:">>, <<"-", "monitor", "response", "time">> >>

MaxInsights == 2

\* how a reply is laid out: the lines between two sections, and whether
\* its lines are indented
Separators == {"empty line", "two empty lines", "white space"}

Layouts == [separator : Separators, indented : BOOLEAN]

Outlines ==
  [summary : BOOLEAN, lists : BOOLEAN,
   insights : UNION {[1..n -> InsightSections] : n \in 0..MaxInsights}]

SeparatorLines(layout) ==
  IF layout.separator = "empty line" THEN << <<>> >>
  ELSE IF layout.separator = "two empty lines" THEN << <<>>, <<>> >>
  ELSE << <<Indent>> >>

RECURSIVE Join(_, _)
Join(sections, layout) ==
  IF Len(sections) = 0 THEN <<>>
  ELSE LET lines == [i \in DOMAIN Head(sections) |->
                       IF layout.indented THEN <<Indent>> \o Head(sections)[i]
                       ELSE Head(sections)[i]]
       IN IF Len(sections) = 1 THEN lines
          ELSE lines \o SeparatorLines(layout) \o Join(Tail(sections), layout)

SectionsOf(outline) ==
  (IF outline.summary THEN <<SummarySection>> ELSE <<>>)
  \o outline.insights
  \o (IF outline.lists THEN <<KeyTakeawaysSection, ActionItemsSection>> ELSE <<>>)

Content(outline, layout) ==
  IF Len(SectionsOf(outline)) = 0 THEN NoContent ELSE Join(SectionsOf(outline), layout)

\* the completions of the language model: a rejection, or a reply
Completions ==
  {[rejects |-> TRUE, outline |-> [summary |-> FALSE, lists |-> FALSE, insights |-> <<>>],
    layout |-> [separator |-> "empty line", indented |-> FALSE], content |-> NoContent]}
  \cup {[rejects |-> FALSE, outline |-> outline, layout |-> layout,
         content |-> Content(outline, layout)] : outline \in Outlines, layout \in Layouts}

\* a call of generateCallInsights that waits for the language model
Asked(completion) == [NoOp EXCEPT !.op = "asked", !.arg = completion]

generateCallInsights ==
  LET out == generateCallInsightsFn(lastOp.arg) IN
  /\ lastOp.op = "asked"
  /\ lastOp' = [op |-> "generateCallInsights", svc |-> NoService, id |-> Null,
                arg |-> lastOp.arg, at |-> now, result |-> out.result, ret |-> out.ret,
                adapterCalls |-> <<"openai.chat.completions.create">>, writes |-> 0]
  /\ UNCHANGED <<calls, scheduledCalls, reminders, conferences, participants, now,
                 requests, OtherServices>>

(* ------------------------------------------------------------------ *)
(* The voice-analysis route: POST stores an analysis, GET aggregates   *)
(* ------------------------------------------------------------------ *)

SessionUsers == {"u1", "u2"}

\* seconds of the time to live of a cached response
CacheTtl == 300

SecondsPerDay == 86400

MaxAnalyses == 2

MaxWaits == 1

\* startDate and endDate of the GET requests, in seconds like the clock:
\* what is stored before the first wait is in the range, what is stored
\* after it is not
DateRanges == {[startDate |-> 0, endDate |-> 700]}

Views == {"daily"}

RouteAnalysis ==
  [pitch |-> 220, energy |-> 8, clarity |-> 9, tempo |-> 120, variability |-> 3,
   emotion |-> "positive"]

\* `voice-analytics-${session.user.id}-${startDate}-${endDate}-${view}`
cacheKey(user, params) == <<"voice-analytics", user, params.startDate, params.endDate, params.view>>

\* redis.get: an entry whose time to live has run out is gone
redisGet(entries, key, clock) ==
  IF key \in DOMAIN entries /\ clock < entries[key].expiresAt
  THEN Value(entries[key].value) ELSE UndefinedValue

\* redis.set(key, value, 'EX', seconds)
redisSet(entries, key, value, seconds, clock) ==
  [k \in DOMAIN entries \cup {key} |->
     IF k = key THEN [value |-> value, expiresAt |-> clock + seconds] ELSE entries[k]]

findMany_AnyUser(rows, user, params) ==
  SelectSeq(rows, LAMBDA row :
    /\ row.createdAt >= params.startDate /\ row.createdAt <= params.endDate)

\* prisma.callAnalysis.findMany where userId and createdAt in the range,
\* ordered by createdAt (the rows are kept in the order of creation)
findMany(rows, user, params) ==
  SelectSeq(rows, LAMBDA row :
    /\ row.userId = user
    /\ row.createdAt >= params.startDate /\ row.createdAt <= params.endDate)

\* the key of the period of a date; the dates of the model lie in
\* January 1970, the day of the month is the day since the epoch plus one
PeriodOf(view, date) ==
  LET day == date \div SecondsPerDay IN
  IF view = "daily" THEN <<1970, 1, day + 1>>
  ELSE IF view = "weekly" THEN <<1970, "W", (day + 1) \div 7>>
  ELSE <<1970, 1>>

RECURSIVE Periods(_, _, _)
\* the keys of groupedAnalytics, in the order of their first row
Periods(view, rows, seen) ==
  IF Len(rows) = 0 THEN <<>>
  ELSE LET key == PeriodOf(view, Head(rows).createdAt) IN
       IF key \in seen THEN Periods(view, Tail(rows), seen)
       ELSE <<key>> \o Periods(view, Tail(rows), seen \cup {key})

RECURSIVE Sum(_, _)
Sum(items, metric) ==
  IF Len(items) = 0 THEN 0 ELSE Head(items).analysis[metric] + Sum(Tail(items), metric)

\* a quotient that is not computed: dividend / divisor
Ratio(dividend, divisor) == <<dividend, divisor>>

\* the aggregates of the GET response, one per period
Aggregate(view, rows) ==
  LET periods == Periods(view, rows, {}) IN
  [i \in DOMAIN periods |->
     LET items == SelectSeq(rows, LAMBDA row : PeriodOf(view, row.createdAt) = periods[i])
         count == Len(items)
     IN [period |-> periods[i],
         metrics |-> [m \in {"pitch", "energy", "clarity", "tempo", "variability"} |->
                        Ratio(Sum(items, m), count)],
         emotions |-> [j \in DOMAIN items |-> items[j].analysis.emotion],
         count |-> count]]

RouteOutcome(rows, entries, status, body, log, writes) ==
  [analyses |-> rows, cache |-> entries, result |-> status, ret |-> body,
   adapterCalls |-> log, writes |-> writes]

PostFailures == {"none", "rate", "analysis", "store"}

\* POST of the voice-analysis route
PostFn(rows, entries, clock, user, callId, fail) ==
  IF fail = "session" THEN RouteOutcome(rows, entries, "401", <<>>, <<>>, 0)
  ELSE IF fail = "rate" THEN RouteOutcome(rows, entries, "429", <<>>, <<"rateLimit">>, 0)
  ELSE IF fail = "analysis"
  THEN RouteOutcome(rows, entries, "500", <<>>, <<"rateLimit", "analyzeVoice">>, 0)
  ELSE IF callId = Null
  THEN RouteOutcome(rows, entries, "200", <<RouteAnalysis>>, <<"rateLimit", "analyzeVoice">>, 0)
  ELSE IF fail = "store"
  THEN RouteOutcome(rows, entries, "500", <<>>,
                    <<"rateLimit", "analyzeVoice", "callAnalysis.create">>, 0)
  ELSE RouteOutcome(Append(rows, [callId |-> callId, userId |-> user,
                                  analysis |-> RouteAnalysis, createdAt |-> clock]),
                    entries, "200", <<RouteAnalysis>>,
                    <<"rateLimit", "analyzeVoice", "callAnalysis.create">>, 1)

GetFailures == {"none", "session", "store"}

\* GET of the voice-analysis route
GetFn(rows, entries, clock, user, params, fail) ==
  IF fail = "session" THEN RouteOutcome(rows, entries, "401", <<>>, <<>>, 0)
  ELSE
    LET key == cacheKey(user, params)
        cachedData == redisGet(entries, key, clock)
    IN
    IF cachedData.defined
    THEN RouteOutcome(rows, entries, "200", cachedData.value, <<"redis.get">>, 0)
    ELSE IF fail = "store"
    THEN RouteOutcome(rows, entries, "500", <<>>, <<"redis.get", "callAnalysis.findMany">>, 0)
    ELSE LET analytics == Aggregate(params.view, findMany(rows, user, params)) IN
         RouteOutcome(rows, redisSet(entries, key, analytics, CacheTtl, clock), "200",
                      analytics, <<"redis.get", "callAnalysis.findMany", "redis.set">>, 1)

RouteRecord(op, user, arg, out) ==
  [op |-> op, svc |-> NoService, id |-> user, arg |-> arg, at |-> now,
   result |-> out.result, ret |-> out.ret, adapterCalls |-> out.adapterCalls,
   writes |-> out.writes]

NotRoute ==
  <<calls, scheduledCalls, reminders, conferences, participants, now, requests,
    recordings, objects, voice>>

PostVoiceAnalysis(ids) ==
  \E user \in SessionUsers, callId \in ids \cup {Null}, fail \in PostFailures :
    LET out == PostFn(analyses, cache, now, user, callId, fail) IN
    /\ Len(analyses) < MaxAnalyses
    /\ analyses' = out.analyses
    /\ cache' = out.cache
    /\ lastOp' = RouteRecord("POST voice-analysis", user, [callId |-> callId], out)
    /\ UNCHANGED NotRoute

GetVoiceAnalysis ==
  \E user \in SessionUsers, range \in DateRanges, view \in Views, fail \in GetFailures :
    LET params == [startDate |-> range.startDate, endDate |-> range.endDate, view |-> view]
        out == GetFn(analyses, cache, now, user, params, fail)
    IN
    /\ analyses' = out.analyses
    /\ cache' = out.cache
    /\ lastOp' = RouteRecord("GET voice-analysis", user, params, out)
    /\ UNCHANGED NotRoute

\* time passes, as long as a cached response lives
Wait ==
  /\ now < Clock.start + MaxWaits * CacheTtl
  /\ now' = now + CacheTtl
  /\ UNCHANGED <<calls, scheduledCalls, reminders, conferences, participants, lastOp,
                 requests, OtherServices>>

EmptyTable == [x \in {} |-> Null]

InitTables ==
  /\ calls = EmptyTable
  /\ scheduledCalls = EmptyTable
  /\ reminders = <<>>
  /\ conferences = EmptyTable
  /\ participants = EmptyTable
  /\ now = Clock.start
  /\ requests = [r \in Slots |-> Idle]
  /\ recordings = EmptyTable
  /\ objects = {}
  /\ voice = NoVoice
  /\ analyses = <<>>
  /\ cache = EmptyTable

Init == InitTables /\ lastOp = NoOp

Next ==
  \/ makeCall(CallIds)
  \/ updateCallStatus(CallIds, LifecycleStatuses)
  \/ handleRecording(CallIds)
  \/ handleTranscription(CallIds)
  \/ handleIncomingCall(CallIds)

(* the service methods on two Call rows *)
Spec == Init /\ [][Next]_vars

NextLifecycle ==
  \/ makeCall(OneCall)
  \/ updateCallStatus(OneCall, LifecycleStatuses)
  \/ handleRecording(OneCall)
  \/ handleTranscription(OneCall)
  \/ twilioWebhook(OneCall, LifecycleStatuses)
  \/ vapiWebhook(OneCall, LifecycleStatuses)

(* the service methods and both webhook routes on one Call row *)
SpecLifecycle == Init /\ [][NextLifecycle]_vars

NextStatus ==
  \/ makeCall(OneCall)
  \/ updateCallStatus(OneCall, AllStatuses)

(* every status value through both adapters *)
SpecStatus == Init /\ [][NextStatus]_vars

ScheduleIds == {"s1"}
SchedulingAdapters ==
  InterfaceServices({OptionalMethods, OptionalMethods \ {"scheduleCall"}})
ScheduledTimes == {360, 600, 930}

NextSchedule ==
  \/ scheduleCall(SchedulingAdapters, ScheduleIds, ScheduledTimes, Timezones)
  \/ Tick

(* scheduling against a clock *)
SpecSchedule == Init /\ [][NextSchedule]_vars

ConferenceIds == {"k1"}
ParticipantIds == {"pt1"}
StoredParticipantIds == ParticipantIds \cup {AutoIdOrder[1]}

(* an adapter with every optional method, and the ones that lack some of ms *)
With(ms) == InterfaceServices({OptionalMethods} \cup {OptionalMethods \ {m} : m \in ms})

NextOptional ==
  \/ scheduleCall(With({"scheduleCall"}), ScheduleIds, {600}, {"UTC"})
  \/ createConference(With({"createConference", "addParticipantToConference"}),
                      ConferenceIds, {<<>>, <<"+1">>})
  \/ addParticipantToConference(With({"addParticipantToConference"}),
                                ConferenceIds, {"+2"}, ParticipantIds)
  \/ removeParticipantFromConference(With({"removeParticipantFromConference"}),
                                     ConferenceIds, StoredParticipantIds)
  \/ muteParticipant(With({"muteParticipant"}), ConferenceIds, StoredParticipantIds)
  \/ endConference(With({"endConference"}), ConferenceIds)

(* the operations that need an optional adapter method *)
SpecOptional == Init /\ [][NextOptional]_vars

NextAnalytics ==
  \/ makeCall(CallIds)
  \/ handleTranscription(CallIds)
  \/ getCallAnalytics(CallIds)

(* fetching the vendor's analytics of two Call rows *)
SpecAnalytics == Init /\ [][NextAnalytics]_vars

NextConcurrent ==
  \/ makeCall(OneCall)
  \/ BeginUpdateCallStatus(OneCall, {"in-progress", "completed"})
  \/ \E r \in Slots : AdapterAnswers(r)
  \/ \E r \in Slots : StoreAnswers(r)
  \/ \E r \in Slots : Respond(r)

(* two updateCallStatus requests for one Call row, step by step; an answer *)
(* that is awaited arrives (or the await throws), so these steps are fair  *)
SpecConcurrent ==
  /\ Init /\ [][NextConcurrent]_vars
  /\ \A r \in Slots : WF_requests(AdapterAnswers(r)) /\ WF_requests(StoreAnswers(r))

NextRace ==
  \/ makeCall(OneCall)
  \/ BeginUpdateCallStatus(OneCall, {"completed"})
  \/ BeginHandleRecording(OneCall)
  \/ BeginHandleTranscription(OneCall)
  \/ \E r \in Slots : AdapterAnswers(r)
  \/ \E r \in Slots : StoreAnswers(r)
  \/ \E r \in Slots : Respond(r)

(* a status callback and a recording or transcription callback for one     *)
(* Call row, step by step, each method with one value                      *)
SpecRace == Init /\ [][NextRace]_vars

NextTwilio ==
  \/ makeCall(OneCall)
  \/ twilioWebhook(OneCall, {"ringing", "completed"})

(* the Twilio webhook route on one Call row, with the status ringing *)
SpecTwilio == Init /\ [][NextTwilio]_vars

NextRoute ==
  \/ PostVoiceAnalysis(OneCall)
  \/ GetVoiceAnalysis
  \/ Wait

(* the voice-analysis route for two users, with the cache of its responses *)
SpecRoute == Init /\ [][NextRoute]_vars

NextRecording ==
  \/ saveRecording(CallIds)
  \/ getRecordingUrl(CallIds)
  \/ deleteRecording(CallIds)
  \/ analyzeRecording(CallIds)
  \/ Tick

(* the recordings of two calls *)
SpecRecording == Init /\ [][NextRecording]_vars

NextVoice ==
  \/ analyzeVoice(AudioUrls)
  \/ \E a \in SubAnalyses : SubAnalysisSettles(a)

SpecVoice == Init /\ [][NextVoice]_vars

InitInsights == InitTables /\ lastOp \in {Asked(completion) : completion \in Completions}

NextInsights == generateCallInsights

SpecInsights == InitInsights /\ [][NextInsights]_vars

Roster == <<"+1", "+2", "+3">>
ConferenceAdapters == With({"addParticipantToConference"})
RosterIds == ParticipantIds \cup {AutoIdOrder[1], AutoIdOrder[2]}

NextConference ==
  \/ createConference(ConferenceAdapters, ConferenceIds, {<<>>, Roster})
  \/ addParticipantToConference(With({}), ConferenceIds, {"+2"}, ParticipantIds)
  \/ removeParticipantFromConference(With({}), ConferenceIds, RosterIds)
  \/ muteParticipant(With({}), ConferenceIds, RosterIds)
  \/ endConference(With({}), ConferenceIds)

(* the conference operations on one conference with a roster of three *)
SpecConference == Init /\ [][NextConference]_vars

(***************************************************************************)
(* Properties.                                                             *)
(***************************************************************************)
NewCalls == DOMAIN calls' \ DOMAIN calls

AdapterSucceeded(op) ==
  Len(op.adapterCalls) > 0 /\ op.adapterCalls[Len(op.adapterCalls)].ok

(* C1 as stated: a makeCall whose adapter request succeeded leaves exactly  *)
(* one new Call row, with the adapter's id and status queued; a makeCall    *)
(* whose adapter request failed leaves no new row.                          *)
C1_AsStated ==
  [][lastOp'.op = "makeCall" =>
       IF AdapterSucceeded(lastOp')
       THEN NewCalls = {lastOp'.id} /\ calls'[lastOp'.id].status = "queued"
       ELSE calls' = calls]_vars

(* C1 amended: a makeCall whose adapter request and whose storage write     *)
(* both succeeded leaves exactly one new Call row, with the adapter's id    *)
(* and status queued, and every other row as it was; a makeCall in which    *)
(* either failed leaves the Call table unchanged.                           *)
C1_OneRowIffBothSucceed ==
  [][lastOp'.op = "makeCall" =>
       IF lastOp'.result = "ok"
       THEN /\ AdapterSucceeded(lastOp')
            /\ NewCalls = {lastOp'.id}
            /\ calls'[lastOp'.id].status = "queued"
            /\ \A c \in DOMAIN calls : calls'[c] = calls[c]
       ELSE calls' = calls]_vars

(* a second row has just been created by a successful makeCall *)
C1_Witness ==
  /\ lastOp.op = "makeCall" /\ lastOp.result = "ok"
  /\ lastOp.id \in DOMAIN calls
  /\ Cardinality(DOMAIN calls) = 2

(* C2: makeCall sends exactly one makeCall request to the adapter, with the *)
(* caller's options; it returns the adapter's call id when it succeeds and  *)
(* fails with the adapter's own error when the adapter fails.               *)
C2_OneAdapterCall ==
  lastOp.op = "makeCall" =>
    /\ Len(lastOp.adapterCalls) = 1
    /\ lastOp.adapterCalls[1].method = "makeCall"
    /\ lastOp.adapterCalls[1].args = <<lastOp.arg>>
    /\ (lastOp.result = "ok" => lastOp.adapterCalls[1].ok /\ lastOp.ret = lastOp.id)
    /\ (~lastOp.adapterCalls[1].ok => lastOp.result = "ProviderError" /\ lastOp.ret = Null)

(* a makeCall whose adapter request failed *)
C2_Witness ==
  /\ lastOp.op = "makeCall" /\ lastOp.result = "ProviderError"
  /\ Len(lastOp.adapterCalls) = 1 /\ ~lastOp.adapterCalls[1].ok

AllowedTransition(from, to) ==
  \/ from = "queued" /\ to = "ringing"
  \/ from = "ringing" /\ to = "in-progress"
  \/ from = "in-progress" /\ to \in {"completed", "failed", "busy", "no-answer"}
  \/ from \notin TerminalStatuses /\ to = "canceled"

(* C3 as stated: a Call's status changes only along the lifecycle           *)
(* transitions, and never once it is terminal.                              *)
C3_AsStated ==
  [][\A c \in DOMAIN calls :
       c \in DOMAIN calls' /\ calls'[c].status # calls[c].status
         => AllowedTransition(calls[c].status, calls'[c].status)]_vars

ForwardedStatus(op, c, status) ==
  \E i \in 1..Len(op.adapterCalls) :
    /\ op.adapterCalls[i].method = "updateCallStatus"
    /\ op.adapterCalls[i].ok
    /\ op.adapterCalls[i].args = <<c, status>>

(* C3 amended: no Call row is ever removed, and a Call's status changes     *)
(* only in a request that forwarded updateCallStatus for that call to the   *)
(* adapter successfully; the new status is the requested one, whatever the  *)
(* status was before (no transition is refused, a terminal status can be    *)
(* overwritten).                                                            *)
C3_StatusFollowsRequests ==
  [][\A c \in DOMAIN calls :
       /\ c \in DOMAIN calls'
       /\ (calls'[c].status # calls[c].status
             => ForwardedStatus(lastOp', c, calls'[c].status))]_vars

(* a webhook has just set the status of a call that also has a recording *)
C3_Witness ==
  /\ lastOp.op \in {"twilioWebhook", "vapiWebhook"} /\ lastOp.result = "ok"
  /\ lastOp.id \in DOMAIN calls
  /\ ForwardedStatus(lastOp, lastOp.id, "completed")
  /\ calls[lastOp.id].status = "completed"
  /\ calls[lastOp.id].recordingUrl # Null

RemindersOf(id) == {i \in 1..Len(reminders) : reminders[i].scheduledCallId = id}

UtcOf(options) == zonedTimeToUtc(options.scheduledTime, options.timezone)

(* C4 as stated: a scheduleCall whose time, converted to UTC, is at or      *)
(* before the current time fails, also when the two are equal.              *)
C4_AsStated ==
  lastOp.op = "scheduleCall" /\ UtcOf(lastOp.arg) <= lastOp.at
    => lastOp.result # "ok"

(* C5: a scheduleCall rejected for a time in the past has sent nothing to   *)
(* the adapter and written nothing: every table is as it was.               *)
C5_RejectionChangesNothing ==
  [][lastOp'.op = "scheduleCall" /\ lastOp'.result = "PastTime" =>
       /\ lastOp'.adapterCalls = <<>>
       /\ lastOp'.writes = 0
       /\ scheduledCalls' = scheduledCalls
       /\ reminders' = reminders
       /\ UNCHANGED CallTables]_vars

(* a request for a past time was rejected while a scheduled call and its    *)
(* reminder were stored                                                     *)
C5_Witness ==
  /\ lastOp.op = "scheduleCall" /\ lastOp.result = "PastTime"
  /\ UtcOf(lastOp.arg) < lastOp.at
  /\ DOMAIN scheduledCalls # {}
  /\ Len(reminders) = 1

(* C6 as stated: a Reminder fires minutesBefore minutes before the UTC time *)
(* stored in its ScheduledCall.                                             *)
C6_AsStated ==
  \A i \in 1..Len(reminders) :
    LET id == reminders[i].scheduledCallId IN
    id \in DOMAIN scheduledCalls =>
      reminders[i].scheduledTime =
        scheduledCalls[id].scheduledTime - scheduledCalls[id].reminder.minutesBefore

(* C7 as stated: a ScheduledCall has exactly one Reminder when its rule is  *)
(* enabled and none otherwise, in every reachable state.                    *)
C7_AsStated ==
  \A id \in DOMAIN scheduledCalls :
    Cardinality(RemindersOf(id)) =
      IF scheduledCalls[id].reminder.present /\ scheduledCalls[id].reminder.enabled
      THEN 1 ELSE 0

(* C7 amended: a ScheduledCall whose rule is absent or disabled has no      *)
(* Reminder; one whose rule is enabled has at most one, created pending,    *)
(* and exactly one once the scheduleCall that stored it has returned; every *)
(* Reminder belongs to a stored ScheduledCall.                              *)
C7_AtMostOneReminder ==
  /\ \A id \in DOMAIN scheduledCalls :
       /\ Cardinality(RemindersOf(id)) <= 1
       /\ (~(scheduledCalls[id].reminder.present /\ scheduledCalls[id].reminder.enabled)
             => RemindersOf(id) = {})
  /\ \A i \in 1..Len(reminders) :
       /\ reminders[i].scheduledCallId \in DOMAIN scheduledCalls
       /\ reminders[i].status = "pending"
  /\ (lastOp.op = "scheduleCall" /\ lastOp.result = "ok"
        /\ lastOp.arg.reminder.present /\ lastOp.arg.reminder.enabled
        => Cardinality(RemindersOf(lastOp.id)) = 1)

(* a scheduleCall with an enabled reminder has returned *)
C7_Witness ==
  /\ lastOp.op = "scheduleCall" /\ lastOp.result = "ok"
  /\ lastOp.arg.reminder.present /\ lastOp.arg.reminder.enabled
  /\ Cardinality(RemindersOf(lastOp.id)) = 1

(* C8: for both adapters the status-translation table has no two keys with *)
(* the same vendor value: among the table's keys, the value an            *)
(* updateCallStatus request sent to the vendor belongs to the requested   *)
(* status only.                                                            *)
C8_TableInvertible ==
  /\ \A type \in ProviderTypes :
       \A a, b \in DOMAIN statusMap(type) :
         statusMap(type)[a] = statusMap(type)[b] => a = b
  /\ (lastOp.op = "updateCallStatus" /\ lastOp.arg \in TableStatuses
        => \A s \in TableStatuses \ {lastOp.arg} :
             statusMap(lastOp.svc.provider.providerType)[s]
               # lastOp.adapterCalls[1].sent)

(* the VAPI adapter has translated "no-answer" *)
C8_Witness ==
  /\ lastOp.op = "updateCallStatus"
  /\ lastOp.svc.provider.providerType = "vapi"
  /\ lastOp.arg = "no-answer"
  /\ lastOp.adapterCalls[1].sent = "no_answer"

OptionalOperations ==
  {"scheduleCall", "createConference", "addParticipantToConference",
   "removeParticipantFromConference", "muteParticipant", "endConference"}

(* C10: scheduleCall and the five conference operations, asked of an       *)
(* adapter that lacks the corresponding method, fail as unsupported       *)
(* without any adapter request and without any storage write.             *)
C10_UnsupportedBeforeAnyEffect ==
  [][lastOp'.op \in OptionalOperations /\ ~Implements(lastOp'.svc, lastOp'.op) =>
       /\ lastOp'.result = "Unsupported"
       /\ lastOp'.adapterCalls = <<>>
       /\ lastOp'.writes = 0
       /\ UNCHANGED <<calls, scheduledCalls, reminders, conferences, participants>>
    ]_vars

(* endConference was refused for a conference that is stored and open *)
C10_Witness ==
  /\ lastOp.op = "endConference" /\ lastOp.result = "Unsupported"
  /\ lastOp.id \in DOMAIN conferences
  /\ conferences[lastOp.id].status = "scheduled"

RosterOf(parts, id) == {q \in DOMAIN parts : parts[q].conferenceId = id}

(* C11 as stated: once the adapter's createConference has succeeded the    *)
(* store holds the Conference row with status scheduled and the invited    *)
(* participant rows.                                                       *)
C11_AsStated ==
  lastOp.op = "createConference" /\ Len(lastOp.adapterCalls) >= 1
    /\ lastOp.adapterCalls[1].ok
  => /\ lastOp.id \in DOMAIN conferences
     /\ conferences[lastOp.id].status = "scheduled"
     /\ Cardinality(RosterOf(participants, lastOp.id)) >= Len(lastOp.arg.participants)

(* C11: a createConference whose adapter createConference call and whose   *)
(* conference write both succeed adds one Conference row with status       *)
(* scheduled and one invited participant row per requested phone number;   *)
(* otherwise it adds nothing; no addParticipantToConference request is     *)
(* made unless these rows have been written.                               *)
C11_RowsBeforeInvitations ==
  [][lastOp'.op = "createConference" =>
       LET id == lastOp'.id
           phones == lastOp'.arg.participants
           log == lastOp'.adapterCalls
           new == DOMAIN participants' \ DOMAIN participants
       IN
       /\ (lastOp'.writes = 1) =
            (/\ Len(log) >= 1 /\ log[1].ok
             /\ lastOp'.result \notin {"StorageError", "UniqueConstraint"})
       /\ IF lastOp'.writes = 1
          THEN /\ id \notin DOMAIN conferences
               /\ DOMAIN conferences' = DOMAIN conferences \cup {id}
               /\ conferences'[id].status = "scheduled"
               /\ \A c \in DOMAIN conferences : conferences'[c] = conferences[c]
               /\ \A q \in DOMAIN participants : participants'[q] = participants[q]
               /\ new = RosterOf(participants', id)
               /\ Cardinality(new) = Len(phones)
               /\ \A k \in 1..Len(phones) :
                    \E q \in new : participants'[q].phoneNumber = phones[k]
               /\ \A q \in new : participants'[q].status = "invited"
          ELSE /\ conferences' = conferences
               /\ participants' = participants
               /\ \A i \in 1..Len(log) : log[i].method # "addParticipantToConference"
    ]_vars

(* a conference of three was created and its first invitation made *)
C11_Witness ==
  /\ lastOp.op = "createConference" /\ lastOp.writes = 1
  /\ Len(lastOp.arg.participants) = 3
  /\ Cardinality(RosterOf(participants, lastOp.id)) = 3
  /\ Len(lastOp.adapterCalls) >= 2

(* C12: createConference invites the participants one at a time in the     *)
(* order of the input list and stops at the first invitation that fails;   *)
(* it then fails with the adapter's error while the Conference row and     *)
(* every participant row, also of those not yet invited, stay as written.  *)
C12_FanOutInOrder ==
  lastOp.op = "createConference" /\ lastOp.writes = 1 =>
    LET id == lastOp.id
        phones == lastOp.arg.participants
        n == Len(phones)
        adds == SubSeq(lastOp.adapterCalls, 2, Len(lastOp.adapterCalls))
    IN
    /\ Len(adds) <= n
    /\ \A i \in 1..Len(adds) :
         /\ adds[i].method = "addParticipantToConference"
         /\ adds[i].args = <<id, phones[i]>>
         /\ i < Len(adds) => adds[i].ok
    /\ (lastOp.result = "ok") =
         (Len(adds) = n /\ \A i \in 1..n : adds[i].ok)
    /\ (Len(adds) >= 1 /\ ~adds[Len(adds)].ok =>
          /\ lastOp.result = "ProviderError"
          /\ lastOp.ret = Null
          /\ id \in DOMAIN conferences /\ conferences[id].status = "scheduled"
          /\ \A k \in 1..n :
               \E q \in RosterOf(participants, id) :
                 /\ participants[q].phoneNumber = phones[k]
                 /\ participants[q].status = "invited")

(* the second of three invitations failed *)
C12_Witness ==
  /\ lastOp.op = "createConference" /\ lastOp.result = "ProviderError"
  /\ lastOp.arg.participants = Roster
  /\ Len(lastOp.adapterCalls) = 3
  /\ lastOp.adapterCalls[2].ok /\ ~lastOp.adapterCalls[3].ok
  /\ \E q \in RosterOf(participants, lastOp.id) :
       participants[q].phoneNumber = Roster[3] /\ participants[q].status = "invited"

(* C13: no step removes a ConferenceParticipant row, and a successful      *)
(* removeParticipantFromConference leaves the participant's row in place   *)
(* with status disconnected and a leave timestamp.                         *)
C13_RemovedStaysListed ==
  [][/\ DOMAIN participants \subseteq DOMAIN participants'
     /\ (lastOp'.op = "removeParticipantFromConference" /\ lastOp'.result = "ok" =>
           LET q == lastOp'.arg IN
           /\ q \in DOMAIN participants
           /\ participants'[q].status = "disconnected"
           /\ participants'[q].leftAt # NoTime
           /\ participants'[q].conferenceId = participants[q].conferenceId
           /\ participants'[q].phoneNumber = participants[q].phoneNumber)
    ]_vars

(* a participant added by addParticipantToConference has been removed *)
C13_Witness ==
  /\ lastOp.op = "removeParticipantFromConference" /\ lastOp.result = "ok"
  /\ lastOp.arg \in ParticipantIds
  /\ participants[lastOp.arg].status = "disconnected"
  /\ participants[lastOp.arg].leftAt # NoTime

(* C14: endConference asks the adapter first; when that succeeds it sets   *)
(* the Conference status to completed with an end timestamp, when it fails *)
(* the Conference row is unchanged; no participant row changes either way. *)
C14_EndConferenceFrame ==
  [][lastOp'.op = "endConference" =>
       LET id == lastOp'.id
           log == lastOp'.adapterCalls IN
       /\ participants' = participants
       /\ Len(log) = 1 /\ log[1].method = "endConference" /\ log[1].args = <<id>>
       /\ (~log[1].ok => lastOp'.result = "ProviderError" /\ conferences' = conferences)
       /\ IF lastOp'.result = "ok"
          THEN /\ log[1].ok
               /\ id \in DOMAIN conferences
               /\ conferences' = [conferences EXCEPT ![id] =
                     Merge(@, [status |-> "completed", endTime |-> now])]
               /\ conferences'[id].endTime # NoTime
          ELSE conferences' = conferences
    ]_vars

(* a conference with invited participants has been ended *)
C14_Witness ==
  /\ lastOp.op = "endConference" /\ lastOp.result = "ok"
  /\ conferences[lastOp.id].status = "completed"
  /\ \E q \in RosterOf(participants, lastOp.id) : participants[q].status = "invited"

FieldOf(op) ==
  CASE op = "updateCallStatus" -> "status"
    [] op = "handleRecording" -> "recordingUrl"
    [] op = "handleTranscription" -> "transcription"

(* the operation of lastOp applied to the table cs with nothing failing *)
Reapplied(op, cs) ==
  CASE op.op = "updateCallStatus" ->
         updateCallStatusFn(cs, op.svc, op.id, op.arg, TRUE, TRUE)
    [] op.op = "handleRecording" ->
         handleRecordingFn(cs, op.svc, op.id, op.arg, TRUE, TRUE)
    [] op.op = "handleTranscription" ->
         handleTranscriptionFn(cs, op.svc, op.id, op.arg, TRUE, TRUE)

FieldUpdates == {"updateCallStatus", "handleRecording", "handleTranscription"}

C16_AsStated ==
  lastOp.op \in FieldUpdates /\ lastOp.id \notin DOMAIN calls
    => /\ lastOp.result # "ok"
       /\ lastOp.adapterCalls = <<>>
       /\ lastOp.writes = 0

(* C17 as stated: when the adapter's getCallAnalytics fails, the service's *)
(* getCallAnalytics fails with that error and leaves the Call row alone;   *)
(* when it succeeds the analytics are stored in the row and returned.      *)
C17_AsStated ==
  lastOp.op = "getCallAnalytics" /\ Len(lastOp.adapterCalls) = 1 =>
    IF lastOp.adapterCalls[1].ok
    THEN lastOp.result = "ok" =>
           lastOp.ret = lastOp.arg.id /\ calls[lastOp.id].analytics = lastOp.arg.id
    ELSE lastOp.result = "ProviderError" /\ lastOp.writes = 0

(* C20 as stated: after handleIncomingCall for a call id a Call row with   *)
(* that id exists.                                                         *)
C20_AsStated ==
  lastOp.op = "handleIncomingCall" /\ lastOp.result = "ok"
    => lastOp.id \in DOMAIN calls

NoFailure == [failAt |-> 0, kind |-> "none"]

(* the VAPI events that carry the fields of a Twilio form, one after another *)
ViaVapi(cs, form) ==
  LET id == form.CallSid
      c1 == IF form.CallStatus # Null
            THEN VapiWebhookFn(cs, VapiBody("call.status", id, form.CallStatus,
                                            Null, Null, Null), NoFailure).calls
            ELSE cs
      c2 == IF form.RecordingUrl # Null
            THEN VapiWebhookFn(c1, VapiBody("call.recording", id, Null,
                                            form.RecordingUrl, Null, Null), NoFailure).calls
            ELSE c1
      c3 == IF form.TranscriptionText # Null
            THEN VapiWebhookFn(c2, VapiBody("call.transcription", id, Null, Null,
                                            form.TranscriptionText, Null), NoFailure).calls
            ELSE c2
  IN c3

(* C18 as stated: a Twilio webhook changes the Call row as the VAPI events *)
(* carrying the same fields do, so that these events find nothing left to  *)
(* change after it, and the VAPI call.analytics event reaches a method     *)
(* that CallService has.                                                   *)
C18_AsStated ==
  /\ (lastOp.op = "twilioWebhook" /\ lastOp.result = "ok"
      /\ lastOp.id \in DOMAIN calls
        => ViaVapi(calls, lastOp.arg) = calls)
  /\ (lastOp.op = "vapiWebhook" /\ lastOp.arg.event = "call.analytics"
      /\ lastOp.arg.analytics # Null
        => lastOp.result # "TypeError")

InFlight(r) == requests[r].pc \in {"adapter", "store"}

(* the write of request r has just been applied *)
Wrote(r) ==
  /\ requests[r].pc = "store" /\ requests'[r].pc = "done"
  /\ requests'[r].result = "ok"

(* C19: concurrent updateCallStatus requests for one call id are not       *)
(* serialised; every step that applies a request's write leaves the row    *)
(* with that request's status, whatever the order of the adapter answers,  *)
(* and the status changes in no other way, so the row holds the status of  *)
(* the write applied last; every request in flight comes to its end.       *)
C19_LastWriteWins ==
  /\ [][(\A r \in Slots :
            Wrote(r) => /\ requests[r].id \in DOMAIN calls
                        /\ calls'[requests[r].id].status = requests[r].status)
         /\
         (\A id \in DOMAIN calls :
            calls'[id].status # calls[id].status =>
              \E q \in Slots : Wrote(q) /\ requests[q].id = id)
       ]_vars
  /\ \A r \in Slots : InFlight(r) ~> requests[r].pc = "done"

(* both adapters have answered and neither write has been applied: two     *)
(* requests for the same call with different statuses are in progress      *)
C19_Witness ==
  /\ requests["r1"].pc = "store" /\ requests["r2"].pc = "store"
  /\ requests["r1"].id = requests["r2"].id
  /\ requests["r1"].id \in DOMAIN calls
  /\ requests["r1"].status # requests["r2"].status

RecordingLookups == {"getRecordingUrl", "deleteRecording", "analyzeRecording"}

C29_AsStated ==
  /\ \A c \in DOMAIN recordings : recordings[c].s3Key \in objects
  /\ \A k \in objects : \E c \in DOMAIN recordings : recordings[c].s3Key = k

(* C29: saveRecording writes its row only after its upload has succeeded   *)
(* and deleteRecording removes a row only after it has removed the row's   *)
(* object; a saveRecording or deleteRecording that returns without error   *)
(* leaves its row and its object both present or both absent.             *)
C29_RowAfterUpload ==
  [][/\ (now' = now /\ lastOp'.op = "saveRecording" =>
           /\ \A c \in DOMAIN recordings' \ DOMAIN recordings :
                /\ c = lastOp'.id
                /\ recordings'[c].s3Key \in objects'
                /\ Len(lastOp'.adapterCalls) = 1 /\ lastOp'.adapterCalls[1].ok
           /\ DOMAIN recordings \subseteq DOMAIN recordings'
           /\ (lastOp'.result = "ok" =>
                 /\ lastOp'.id \in DOMAIN recordings'
                 /\ recordings'[lastOp'.id].s3Key \in objects'))
     /\ (now' = now /\ lastOp'.op = "deleteRecording" =>
           /\ \A c \in DOMAIN recordings \ DOMAIN recordings' :
                /\ c = lastOp'.id
                /\ recordings[c].s3Key \notin objects'
           /\ (lastOp'.result = "ok" =>
                 /\ lastOp'.id \in DOMAIN recordings
                 /\ lastOp'.id \notin DOMAIN recordings'
                 /\ recordings[lastOp'.id].s3Key \notin objects'))
    ]_vars

(* a recording has been saved *)
C29_Witness ==
  /\ lastOp.op = "saveRecording" /\ lastOp.result = "ok"
  /\ recordings[lastOp.id].s3Key \in objects

(* C22: whenever the download or any of the three parallel sub-analyses    *)
(* fails, in whichever order they settle, analyzeVoice rejects with the    *)
(* one error 'Failed to analyze voice recording' and returns no result,    *)
(* partial or otherwise.                                                   *)
C22_SingleError ==
  /\ voice.result \in {"pending", "ok", "Failed to analyze voice recording"}
  /\ voice.pc = "parallel" => voice.result = "pending"
  /\ voice.pc = "done" => voice.result # "pending"
  /\ voice.pc = "done" /\ (~voice.downloaded \/ \E a \in SubAnalyses : voice.settled[a].threw)
       => /\ voice.result = "Failed to analyze voice recording"
          /\ ~voice.ret.defined
  /\ voice.ret.defined =>
       /\ voice.result = "ok"
       /\ \A a \in SubAnalyses : voice.settled[a].defined
       /\ lastOp.op = "analyzeVoice" /\ lastOp.result = "ok" /\ lastOp.ret = voice.ret

(* the acoustic analysis had settled with its features when the emotion    *)
(* analysis, settling later, failed; the transcription was still running   *)
C22_Witness ==
  /\ voice.pc = "done"
  /\ voice.settled["acoustic"].defined /\ voice.settled["acoustic"].value.pitch = 220
  /\ voice.settled["emotion"].threw /\ voice.settled["emotion"].reason = "API Error"
  /\ IsPending(voice.settled["transcription"])
  /\ lastOp.op = "analyzeVoice" /\ lastOp.result = "Failed to analyze voice recording"

\* the reply carries no audio features: no channel, or a first channel
\* whose first alternative has none
NoAudioFeatures(reply) ==
  /\ ~reply.rejects
  /\ ~FirstAlternative(reply.body).threw
  /\ FirstAlternative(reply.body).defined => ~Has(FirstAlternative(reply.body).value, "audio_features")

EmptySentimentList(reply) ==
  /\ ~reply.rejects
  /\ Has(reply.body, "sentiment_analysis_results")
  /\ Len(reply.body.sentiment_analysis_results) = 0

(* C23 as stated: when the vendor reply has no audio features (or no       *)
(* channels) and the sentiment list is empty, analyzeVoice returns a       *)
(* result whose pitch, energy, clarity, tempo and variability are all 0    *)
(* instead of failing.                                                     *)
C23_AsStated ==
  /\ voice.pc = "done" /\ voice.downloaded
  /\ \A a \in SubAnalyses : ~IsPending(voice.settled[a])
  /\ NoAudioFeatures(voice.replies["acoustic"])
  /\ EmptySentimentList(voice.replies["emotion"])
  /\ ~voice.settled["transcription"].threw
  => /\ voice.result = "ok"
     /\ voice.ret.defined
     /\ voice.ret.value.pitch = 0 /\ voice.ret.value.energy = 0
     /\ voice.ret.value.clarity = 0 /\ voice.ret.value.tempo = 0
     /\ voice.ret.value.variability = 0

\* the type that the keyword order improve, success, trend gives a line
TypeByKeywordOrder(line) ==
  CASE Mentions(line, "improve") -> "improvement"
    [] ~Mentions(line, "improve") /\ Mentions(line, "success") -> "success"
    [] ~Mentions(line, "improve") /\ ~Mentions(line, "success") /\ Mentions(line, "trend") -> "trend"
    [] OTHER -> "anomaly"

C25_AsStated ==
  lastOp.op = "makeCall" /\ lastOp.result = "ok" =>
    calls[lastOp.id].provider = lastOp.svc.provider.providerType

(* C26 as stated: a CallService bound to one user changes that user's       *)
(* records only: a request that wrote to a Call row was made by a service   *)
(* bound to the row's owner.                                                *)
C26_AsStated ==
  lastOp.op \in {"updateCallStatus", "handleRecording", "handleTranscription",
                 "twilioWebhook", "vapiWebhook"} /\ lastOp.writes > 0 =>
    calls[lastOp.id].userId = lastOp.svc.userId

\* request r has returned without error
Completed(r) == requests[r].pc = "done" /\ requests[r].result = "ok"

(* C27: when an updateCallStatus and a handleRecording or                   *)
(* handleTranscription for the same call id run concurrently and both       *)
(* return without error, the row carries the status of the one and the      *)
(* recording URL or transcription of the other, in every interleaving of    *)
(* their steps: each write changes its own column of the row and no other.  *)
C27_BothFieldsKept ==
  /\ [](\A r \in Slots, q \in Slots :
          (/\ Completed(r) /\ requests[r].method = "updateCallStatus"
           /\ Completed(q) /\ requests[q].method \in {"handleRecording", "handleTranscription"}
           /\ requests[r].id = requests[q].id)
          => /\ calls[requests[r].id].status = requests[r].data.status
             /\ \A column \in DOMAIN requests[q].data :
                  calls[requests[q].id][column] = requests[q].data[column])
  /\ [][\A r \in Slots :
          Wrote(r) =>
            \A column \in DOMAIN calls[requests[r].id] :
              calls'[requests[r].id][column] =
                IF column \in DOMAIN requests[r].data THEN requests[r].data[column]
                ELSE calls[requests[r].id][column]
       ]_vars

(* a status update and a recording for the same call have both returned;   *)
(* the row was still queued and without recording when the second began    *)
C27_Witness ==
  /\ Completed("r1") /\ requests["r1"].method = "handleRecording"
  /\ Completed("r2") /\ requests["r2"].method = "updateCallStatus"
  /\ requests["r1"].id = requests["r2"].id
  /\ calls[requests["r1"].id].status = "completed"
  /\ calls[requests["r1"].id].recordingUrl = "rec1"

\* the service methods that the fields of a Twilio form ask for, in the
\* order status, recording, transcription
FieldMethods(form) ==
  (IF form.CallStatus # Null THEN <<"updateCallStatus">> ELSE <<>>)
  \o (IF form.RecordingUrl # Null THEN <<"handleRecording">> ELSE <<>>)
  \o (IF form.TranscriptionText # Null THEN <<"handleTranscription">> ELSE <<>>)

\* the fields of the form are in the row
Stored(form) ==
  /\ form.CallSid \in DOMAIN calls
  /\ form.CallStatus # Null => calls[form.CallSid].status = form.CallStatus
  /\ form.RecordingUrl # Null => calls[form.CallSid].recordingUrl = form.RecordingUrl
  /\ form.TranscriptionText # Null =>
       calls[form.CallSid].transcription = form.TranscriptionText

Matching(rows, user, params) ==
  {i \in DOMAIN rows : /\ rows[i].userId = user
                       /\ rows[i].createdAt >= params.startDate
                       /\ rows[i].createdAt <= params.endDate}

RECURSIVE Counted(_)
\* the number of analyses counted in a response
Counted(body) == IF Len(body) = 0 THEN 0 ELSE Head(body).count + Counted(Tail(body))

(* C30 as stated: a GET by a user that succeeds returns an aggregate whose  *)
(* counts include every analysis of that user stored, by the time of the    *)
(* GET, with a creation time in the range of the request.                   *)
C30_AsStated ==
  lastOp.op = "GET voice-analysis" /\ lastOp.result = "200" =>
    Counted(lastOp.ret) = Cardinality(Matching(analyses, lastOp.id, lastOp.arg))

\* the aggregate of the user's analyses in the range among the first n stored
AsOf(n, user, params) ==
  Aggregate(params.view, findMany(SubSeq(analyses, 1, n), user, params))

(* C30: a GET by a user that finds no live cached response returns the      *)
(* aggregate of exactly that user's stored analyses in the range and caches *)
(* it for 300 seconds under a key with the user's id; a GET that finds one  *)
(* returns it as cached: the aggregate of that user's analyses in the range *)
(* as of a GET at most 300 seconds earlier, which may lack analyses stored  *)
(* since; no response holds another user's analyses.                        *)
C30_OwnAggregateMaybeStale ==
  /\ \A key \in DOMAIN cache :
       /\ cache[key].expiresAt <= now + CacheTtl
       /\ \E n \in 0..Len(analyses) :
            cache[key].value =
              AsOf(n, key[2], [startDate |-> key[3], endDate |-> key[4], view |-> key[5]])
  /\ lastOp.op = "GET voice-analysis" /\ lastOp.result = "200" =>
       IF lastOp.adapterCalls = <<"redis.get">>
       THEN /\ \E n \in 0..Len(analyses) : lastOp.ret = AsOf(n, lastOp.id, lastOp.arg)
            /\ cacheKey(lastOp.id, lastOp.arg) \in DOMAIN cache
            /\ cache[cacheKey(lastOp.id, lastOp.arg)].value = lastOp.ret
            /\ cache[cacheKey(lastOp.id, lastOp.arg)].expiresAt > lastOp.at
       ELSE /\ lastOp.ret = AsOf(Len(analyses), lastOp.id, lastOp.arg)
            /\ Counted(lastOp.ret) = Cardinality(Matching(analyses, lastOp.id, lastOp.arg))
            /\ cache[cacheKey(lastOp.id, lastOp.arg)] =
                 [value |-> lastOp.ret, expiresAt |-> lastOp.at + CacheTtl]

(* a GET was answered from the cache after the user had stored an analysis  *)
(* in the range, while the other user has an analysis in the range as well  *)
C30_Witness ==
  /\ lastOp.op = "GET voice-analysis" /\ lastOp.result = "200"
  /\ lastOp.adapterCalls = <<"redis.get">>
  /\ Counted(lastOp.ret) = 0
  /\ Cardinality(Matching(analyses, lastOp.id, lastOp.arg)) = 1
  /\ \E i \in DOMAIN analyses : analyses[i].userId # lastOp.id


====
